---- MODULE Spec2Model ----
(***************************************************************************)
(* A model of rmlint's src/cmdline.c: the orchestrator rm_cmd_main, the    *)
(* option callbacks driven by g_option_context_parse in rm_cmd_parse_args, *)
(* the positional-argument handling of rm_cmd_set_paths, the size parsers  *)
(* rm_cmd_size_string_to_bytes / rm_cmd_size_range_string_to_bytes, the    *)
(* lint-type selector rm_cmd_parse_lint_types and the buffer handling of   *)
(* rm_cmd_parse_output_pair.                                               *)
(*                                                                         *)
(* C strings are sequences of one-character strings.  Each part of the     *)
(* file has its own specification over its own group of variables; the     *)
(* other groups stay at their idle value.                                  *)
(***************************************************************************)
EXTENDS Integers, Sequences, FiniteSets, TLC

VARIABLES
    \* ---- rm_cmd_main ----
    mpc,                \* position in rm_cmd_main
    events,             \* calls and set_state notifications made so far, in order
    total_files,        \* session->total_files
    searchdup,          \* session->settings->searchdup
    merge_directories,  \* session->settings->merge_directories
    mounts,             \* session->mounts: "unset", "ok" or "NULL"
    dir_merger,         \* session->dir_merger: "unset" or "created"
    exit_state,         \* exit_state of rm_cmd_main
    \* ---- rm_cmd_set_paths ----
    ppc,                \* position in rm_cmd_set_paths
    argv_paths,         \* the positional arguments (char **paths)
    arg_i,              \* the loop variable i, counted from 1
    path_index,         \* local path_index
    is_prefd,           \* local is_prefd
    not_all_paths_read, \* local not_all_paths_read
    settings_paths,     \* settings->paths, with its NULL terminator
    settings_is_prefd,  \* settings->is_prefd
    stdin_lines,        \* lines not yet read from standard input
    stdin_given,        \* the lines standard input held at the start
    cwd_readable,       \* whether settings->iwd passes the access check
    paths_ret,          \* return value of rm_cmd_set_paths
    \* ---- rm_cmd_size_string_to_bytes, rm_cmd_parse_limit_sizes ----
    spc,                \* "input", "done" or "crashed"
    spec_parts,         \* how the argument string was put together
    size_spec,          \* the argument string (size_spec / range_spec)
    size_value,         \* value returned by rm_cmd_size_string_to_bytes
    size_error,         \* *error after rm_cmd_size_string_to_bytes
    minsize,            \* settings->minsize
    maxsize,            \* settings->maxsize
    limits_specified,   \* settings->limits_specified
    limit_error,        \* the GError message set by rm_cmd_parse_limit_sizes
    \* ---- rm_cmd_parse_args ----
    apc,                \* "options", "set_paths", "returned" or "exited"
    argc,               \* the number of options on the command line
    argv_opts,          \* the options met so far, in order, each with its argument
    gerror,             \* the message of GError *error, NoError for NULL
    error_lines,        \* the ERROR lines logged so far
    exit_status,        \* the status passed to exit()
    parse_result,       \* return value of rm_cmd_parse_args: "none", "true"
    cfg,                \* session->settings
    session,            \* output_cnt, formats, paranoia_count, cache_list; cleared
    tty,                \* whether stdout and stderr are terminals
    callback_ret,       \* what the last option callback returned, and *error then
    \* ---- rm_cmd_parse_lint_types ----
    lpc,                \* "split", "loop" or "returned"
    lint_string,        \* the argument of -T
    lint_sep,           \* local lint_sep
    lint_types,         \* local lint_types, without its NULL terminator
    lint_index,         \* local index, counted from 0
    lint_settings,      \* session->settings: the lint flags and what -D sets
    lint_ret,           \* return value of rm_cmd_parse_lint_types
    \* ---- rm_cmd_parse_output_pair ----
    opc,                \* "copy", "add", "returned" or "crashed"
    pair_given,         \* the argument pair
    format_name_buf,    \* char format_name[100]
    written,            \* the number of bytes strncpy was told to write
    name_read,          \* the format name rm_fmt_add read
    pair_ret            \* return value of rm_cmd_parse_output_pair

mainVars == <<mpc, events, total_files, searchdup, merge_directories,
              mounts, dir_merger, exit_state>>

pathVars == <<ppc, argv_paths, arg_i, path_index, is_prefd, not_all_paths_read,
              settings_paths, settings_is_prefd, stdin_lines, stdin_given,
              cwd_readable, paths_ret>>

sizeVars == <<spc, spec_parts, size_spec, size_value, size_error,
              minsize, maxsize, limits_specified, limit_error>>

argsVars == <<apc, argc, argv_opts, gerror, error_lines, exit_status, parse_result,
              cfg, session, tty, callback_ret>>

lintVars == <<lpc, lint_string, lint_sep, lint_types, lint_index,
              lint_settings, lint_ret>>

pairVars == <<opc, pair_given, format_name_buf, written, name_read, pair_ret>>

vars == <<mainVars, pathVars, sizeVars, argsVars, lintVars, pairVars>>

nonMainVars == <<pathVars, sizeVars, argsVars, lintVars, pairVars>>
nonPathVars == <<mainVars, sizeVars, argsVars, lintVars, pairVars>>
nonSizeVars == <<mainVars, pathVars, argsVars, lintVars, pairVars>>
nonArgsVars == <<mainVars, pathVars, sizeVars, lintVars, pairVars>>
nonLintVars == <<mainVars, pathVars, sizeVars, argsVars, pairVars>>
nonPairVars == <<mainVars, pathVars, sizeVars, argsVars, lintVars>>

EXIT_SUCCESS == 0
EXIT_FAILURE == 1

(***************************************************************************)
(* The idle value of each group of variables                               *)
(***************************************************************************)
MainIdle ==
    /\ mpc = "idle"
    /\ events = <<>>
    /\ total_files = 0
    /\ searchdup = FALSE
    /\ merge_directories = FALSE
    /\ mounts = "unset"
    /\ dir_merger = "unset"
    /\ exit_state = EXIT_SUCCESS

PathsIdle ==
    /\ ppc = "idle"
    /\ argv_paths = <<>>
    /\ arg_i = 1
    /\ path_index = 0
    /\ is_prefd = FALSE
    /\ not_all_paths_read = FALSE
    /\ settings_paths = <<>>
    /\ settings_is_prefd = <<>>
    /\ stdin_lines = <<>>
    /\ stdin_given = <<>>
    /\ cwd_readable = TRUE
    /\ paths_ret = "none"

NoParts == [kind |-> "none"]

\* A size that has not been written yet.
NoValue == <<>>

SizeIdle ==
    /\ spc = "idle"
    /\ spec_parts = NoParts
    /\ size_spec = <<>>
    /\ size_value = NoValue
    /\ size_error = "NULL"
    /\ minsize = NoValue
    /\ maxsize = NoValue
    /\ limits_specified = FALSE
    /\ limit_error = "NULL"

(***************************************************************************)
(* Bounds                                                                  *)
(***************************************************************************)
MaxFiles == 2       \* traversal finds 0..MaxFiles files
MaxArgs == 3        \* at most MaxArgs positional arguments
MaxDigits == 2      \* a number has at most MaxDigits digits
MaxOpts == 2        \* at most MaxOpts options on a command line
MaxItems == 3       \* at most MaxItems items in the argument of -T
MaxFlags == 3       \* at most MaxFlags options on a command line of flags
MaxPairLen == 101   \* format names of up to MaxPairLen characters

(***************************************************************************)
(* C strings                                                               *)
(***************************************************************************)
Min(a, b) == IF a < b THEN a ELSE b

\* strncmp(s, t, n) == 0: the first n characters agree, a string that ends
\* before n characters only agreeing with a string that ends there too.
StrNEq(s, t, n) == SubSeq(s, 1, Min(n, Len(s))) = SubSeq(t, 1, Min(n, Len(t)))

RECURSIVE SeqsUpTo(_, _)
SeqsUpTo(S, n) ==
    IF n = 0 THEN {<<>>}
    ELSE LET shorter == SeqsUpTo(S, n - 1)
         IN  shorter \cup {Append(q, x) : q \in {r \in shorter : Len(r) = n - 1}, x \in S}

(***************************************************************************)
(* 64-bit values (RmOff) and the long double product                       *)
(***************************************************************************)
\* A natural number as NumLimbs limbs of 16 bits, least significant first:
\* four limbs are an RmOff, the fifth holds what does not fit into one.
LimbBase == 65536
NumLimbs == 5

Big(n) == <<n % LimbBase, n \div LimbBase, 0, 0, 0>>

RECURSIVE BigMulFrom(_, _, _, _)
BigMulFrom(x, k, i, carry) ==
    IF i > NumLimbs THEN <<>>
    ELSE LET t == x[i] * k + carry
         IN  <<t % LimbBase>> \o BigMulFrom(x, k, i + 1, t \div LimbBase)

BigMul(x, k) == BigMulFrom(x, k, 1, 0)

\* pow(base, exponent)
RECURSIVE pow(_, _)
pow(base, exponent) ==
    IF exponent = 0 THEN Big(1) ELSE BigMul(pow(base, exponent - 1), base)

RECURSIVE BigLessFrom(_, _, _)
BigLessFrom(a, b, i) ==
    IF i = 0 THEN FALSE
    ELSE IF a[i] # b[i] THEN a[i] < b[i]
    ELSE BigLessFrom(a, b, i - 1)

BigLess(a, b) == BigLessFrom(a, b, NumLimbs)

FitsRmOff(x) == x[NumLimbs] = 0

G_MAXULONG == <<LimbBase - 1, LimbBase - 1, LimbBase - 1, LimbBase - 1, 0>>

\* Converting a long double outside the range of RmOff is undefined: the
\* builds produce the "integer indefinite" value 2^63, zero or all ones.
UndefinedRmOff == {Big(0), <<0, 0, 0, 32768, 0>>, G_MAXULONG}

\* The RmOff values a (mathematical) product can be returned as.
AsRmOff(x) == IF FitsRmOff(x) THEN {x} ELSE UndefinedRmOff

\* strchr(str, c): the index of the first c in str, 0 for NULL.
strchr(str, c) ==
    IF \E k \in 1..Len(str) : str[k] = c
    THEN CHOOSE k \in 1..Len(str) : str[k] = c /\ \A j \in 1..(k - 1) : str[j] # c
    ELSE 0

(***************************************************************************)
(* strtold, g_strstrip, strcasecmp                                         *)
(* The strings of the model hold blanks, -, digits and letters; none holds *)
(* a decimal point, an exponent, a hexadecimal number, "inf" or "nan".     *)
(***************************************************************************)
DigitChars == <<"0", "1", "2", "3", "4", "5", "6", "7", "8", "9">>
UpperChars == <<"B", "C", "E", "G", "K", "M", "P", "T", "W", "Z">>
LowerChars == <<"b", "c", "e", "g", "k", "m", "p", "t", "w", "z">>
\* The characters in the order of their codes, after tolower.
CharOrder  == <<" ", "-">> \o DigitChars \o LowerChars

IsDigit(c) == \E d \in 1..Len(DigitChars) : DigitChars[d] = c
DigitVal(c) == (CHOOSE d \in 1..Len(DigitChars) : DigitChars[d] = c) - 1
isspace(c) == c \in {" ", "\n"}

tolower(c) ==
    IF \E k \in 1..Len(UpperChars) : UpperChars[k] = c
    THEN LowerChars[CHOOSE k \in 1..Len(UpperChars) : UpperChars[k] = c]
    ELSE c

CharCode(c) == CHOOSE k \in 1..Len(CharOrder) : CharOrder[k] = c

RECURSIVE strcasecmp(_, _)
strcasecmp(a, b) ==
    IF a = <<>> /\ b = <<>> THEN 0
    ELSE IF a = <<>> THEN -1
    ELSE IF b = <<>> THEN 1
    ELSE LET ca == CharCode(tolower(Head(a)))
             cb == CharCode(tolower(Head(b)))
         IN  IF ca # cb THEN ca - cb ELSE strcasecmp(Tail(a), Tail(b))

RECURSIVE LeadingSpaces(_)
LeadingSpaces(str) ==
    IF str # <<>> /\ isspace(Head(str)) THEN 1 + LeadingSpaces(Tail(str)) ELSE 0

RECURSIVE LeadingDigits(_)
LeadingDigits(str) ==
    IF str # <<>> /\ IsDigit(Head(str)) THEN 1 + LeadingDigits(Tail(str)) ELSE 0

RECURSIVE DigitsValue(_)
DigitsValue(ds) ==
    IF ds = <<>> THEN 0
    ELSE 10 * DigitsValue(SubSeq(ds, 1, Len(ds) - 1)) + DigitVal(ds[Len(ds)])

Drop(str, n) == SubSeq(str, n + 1, Len(str))

\* strtold(str, &end): blanks, an optional sign, digits.  consumed is
\* end - str, which is 0 when no number was found.
strtold(str) ==
    LET ws   == LeadingSpaces(str)
        rest == Drop(str, ws)
        neg  == rest # <<>> /\ Head(rest) = "-"
        body == IF neg THEN Tail(rest) ELSE rest
        nd   == LeadingDigits(body)
    IN  IF nd = 0
        THEN [decimal |-> 0, negative |-> FALSE, consumed |-> 0]
        ELSE [decimal  |-> DigitsValue(SubSeq(body, 1, nd)),
              negative |-> neg,
              consumed |-> ws + (IF neg THEN 1 ELSE 0) + nd]

RECURSIVE g_strchomp(_)
g_strchomp(str) ==
    IF str # <<>> /\ isspace(str[Len(str)])
    THEN g_strchomp(SubSeq(str, 1, Len(str) - 1))
    ELSE str

g_strstrip(str) == g_strchomp(Drop(str, LeadingSpaces(str)))

(***************************************************************************)
(* SIZE_FORMAT_TABLE, rm_cmd_size_string_to_bytes                          *)
(***************************************************************************)
FormatSpec(id, base, exponent) == [id |-> id, base |-> base, exponent |-> exponent]

MutSizeFormatTable == <<
    FormatSpec(<<"b">>, 512, 1),
    FormatSpec(<<"c">>, 1, 1),
    FormatSpec(<<"e">>, 1000, 6),
    FormatSpec(<<"e", "b">>, 1024, 6),
    FormatSpec(<<"g">>, 1000, 3),
    FormatSpec(<<"g", "b">>, 1024, 3),
    FormatSpec(<<"k", "b">>, 1024, 1),
    FormatSpec(<<"k">>, 1000, 1),
    FormatSpec(<<"m">>, 1000, 2),
    FormatSpec(<<"m", "b">>, 1024, 2),
    FormatSpec(<<"p">>, 1000, 5),
    FormatSpec(<<"p", "b">>, 1024, 5),
    FormatSpec(<<"t">>, 1000, 4),
    FormatSpec(<<"t", "b">>, 1024, 4),
    FormatSpec(<<"w">>, 2, 1) >>

SIZE_FORMAT_TABLE == <<
    FormatSpec(<<"b">>, 512, 1),
    FormatSpec(<<"c">>, 1, 1),
    FormatSpec(<<"e">>, 1000, 6),
    FormatSpec(<<"e", "b">>, 1024, 6),
    FormatSpec(<<"g">>, 1000, 3),
    FormatSpec(<<"g", "b">>, 1024, 3),
    FormatSpec(<<"k">>, 1000, 1),
    FormatSpec(<<"k", "b">>, 1024, 1),
    FormatSpec(<<"m">>, 1000, 2),
    FormatSpec(<<"m", "b">>, 1024, 2),
    FormatSpec(<<"p">>, 1000, 5),
    FormatSpec(<<"p", "b">>, 1024, 5),
    FormatSpec(<<"t">>, 1000, 4),
    FormatSpec(<<"t", "b">>, 1024, 4),
    FormatSpec(<<"w">>, 2, 1) >>

SIZE_FORMAT_TABLE_N == Len(SIZE_FORMAT_TABLE)

\* Returns 0 and sets *error.
rm_cmd_size_format_error(msg) == [product |-> Big(0), error |-> msg]

rm_cmd_compare_spec_elem(fmt_a, fmt_b) == strcasecmp(fmt_a.id, fmt_b.id)

\* bsearch(key, table, n, size, rm_cmd_compare_spec_elem) over the elements
\* l+1..u of the table; 0 stands for NULL.
RECURSIVE bsearch(_, _, _, _)
bsearch(key, table, l, u) ==
    IF l >= u THEN 0
    ELSE LET idx == (l + u) \div 2
             c   == rm_cmd_compare_spec_elem(key, table[idx + 1])
         IN  IF c < 0 THEN bsearch(key, table, l, idx)
             ELSE IF c > 0 THEN bsearch(key, table, idx + 1, u)
             ELSE idx + 1

\* rm_cmd_size_string_to_bytes(size_spec, &error): the product that is
\* returned (before its conversion to RmOff) and *error, "NULL" when it is
\* left alone.
rm_cmd_size_string_to_bytes(spec) ==
    LET num    == strtold(spec)
        format == Drop(spec, num.consumed)
    IN  IF num.decimal = 0 /\ num.consumed = 0
        THEN rm_cmd_size_format_error("This does not look like a number")
        ELSE IF num.negative /\ num.decimal > 0
        THEN rm_cmd_size_format_error("Negativ sizes are no good idea")
        ELSE IF format # <<>>
        THEN LET key   == [id |-> g_strstrip(format)]
                 found == bsearch(key, SIZE_FORMAT_TABLE, 0, SIZE_FORMAT_TABLE_N)
             IN  IF found # 0
                 THEN [product |-> BigMul(pow(SIZE_FORMAT_TABLE[found].base,
                                              SIZE_FORMAT_TABLE[found].exponent),
                                          num.decimal),
                       error |-> "NULL"]
                 ELSE rm_cmd_size_format_error("Given format specifier not found")
        ELSE [product |-> Big(num.decimal), error |-> "NULL"]

(***************************************************************************)
(* rm_cmd_size_range_string_to_bytes, rm_cmd_parse_limit_sizes             *)
(***************************************************************************)
\* g_strsplit(string, "-", 2): no token for the empty string, else at most
\* two, the second being all that follows the first dash.
g_strsplit(str) ==
    IF str = <<>> THEN <<>>
    ELSE LET d == strchr(str, "-")
         IN  IF d = 0 THEN <<str>>
             ELSE <<SubSeq(str, 1, d - 1), Drop(str, d)>>

\* *max = G_MAXULONG;
MutRangeInitialMax == Big(0)
RangeInitialMax == G_MAXULONG

\* The end of rm_cmd_size_range_string_to_bytes: the check of the order and
\* the result.
RangeResult(min, max, tmp_error) ==
    LET err == IF BigLess(max, min) THEN "Max is smaller than min" ELSE tmp_error
    IN  [crash |-> FALSE, ok |-> (err = "NULL"), min |-> min, max |-> max, error |-> err]

\* rm_cmd_size_range_string_to_bytes(range_spec, &min, &max, &error): the
\* set of its outcomes.  For the empty string g_strsplit returns an array
\* that holds only its NULL terminator, and split[1] is read beyond its end:
\* the read yields NULL, or a stray pointer to something that is no number,
\* or the process dies.
rm_cmd_size_range_string_to_bytes(range_spec) ==
    LET split == g_strsplit(range_spec)
    IN  IF Len(split) = 0
        THEN {RangeResult(Big(0), RangeInitialMax, "NULL"),
              RangeResult(Big(0), Big(0), "This does not look like a number"),
              [crash |-> TRUE, ok |-> FALSE, min |-> Big(0), max |-> RangeInitialMax,
               error |-> "NULL"]}
        ELSE LET r1 == rm_cmd_size_string_to_bytes(split[1])
             IN  IF Len(split) = 2 /\ r1.error = "NULL"
                 THEN LET r2 == rm_cmd_size_string_to_bytes(split[2])
                      IN  {RangeResult(mn, mx, r2.error) :
                               mn \in AsRmOff(r1.product), mx \in AsRmOff(r2.product)}
                 ELSE {RangeResult(mn, RangeInitialMax, r1.error) :
                           mn \in AsRmOff(r1.product)}

\* The argument strings of the model, each with the parts it is made of.
ToUpper(c) ==
    IF \E k \in 1..Len(LowerChars) : LowerChars[k] = c
    THEN UpperChars[CHOOSE k \in 1..Len(LowerChars) : LowerChars[k] = c]
    ELSE c

Blanks == {<<>>, <<" ">>}
Signs == {<<>>, <<"-">>}
NumeralDigits == {"0", "1", "9"}
Numerals == SeqsUpTo(NumeralDigits, MaxDigits)
SuffixLetters == {LowerChars[k] : k \in 1..Len(LowerChars)}
SuffixWords == {<<>>} \cup {<<a>> : a \in SuffixLetters}
                      \cup {<<a, b>> : a, b \in SuffixLetters}

SizeParts ==
    {[kind |-> "size", lead |-> ld, sign |-> sg, digits |-> ds, mid |-> md,
      letters |-> w, upper |-> up, trail |-> tr] :
        ld \in Blanks, sg \in Signs, ds \in Numerals, md \in Blanks,
        w \in SuffixWords, up \in {{}, {1}, {2}, {1, 2}}, tr \in Blanks}

ValidSizeParts ==
    {q \in SizeParts :
        /\ \A k \in q.upper : k <= Len(q.letters)
        \* blanks at the end belong to a suffix
        /\ (q.letters = <<>> => (q.mid = <<>> /\ q.trail = <<>>))}

\* The ends of a range, each with the value it stands for (NoValue: no size).
RangeEnds == {
    [str |-> <<>>,                   val |-> NoValue],
    [str |-> <<"0">>,                val |-> Big(0)],
    [str |-> <<"1">>,                val |-> Big(1)],
    [str |-> <<"9">>,                val |-> Big(9)],
    [str |-> <<"1", "k">>,           val |-> Big(1000)],
    [str |-> <<"1", "K", "B">>,      val |-> Big(1024)],
    [str |-> <<"9", "b">>,           val |-> Big(4608)],
    [str |-> <<"1", "z">>,           val |-> NoValue],
    [str |-> <<"9", "-", "1">>,      val |-> NoValue] }

RangeParts ==
    {[kind |-> "range", lo |-> lo, hi |-> hi] : lo \in RangeEnds, hi \in RangeEnds}

Cased(letters, upper) ==
    [k \in 1..Len(letters) |-> IF k \in upper THEN ToUpper(letters[k]) ELSE letters[k]]

BuildSpec(q) ==
    IF q.kind = "size"
    THEN q.lead \o q.sign \o q.digits \o q.mid \o Cased(q.letters, q.upper) \o q.trail
    ELSE q.lo.str \o <<"-">> \o q.hi.str

SizeInit ==
    /\ spc = "input"
    /\ spec_parts \in ValidSizeParts \cup RangeParts
    /\ size_spec = BuildSpec(spec_parts)
    /\ size_value = NoValue
    /\ size_error = "NULL"
    /\ minsize = NoValue
    /\ maxsize = NoValue
    /\ limits_specified = FALSE
    /\ limit_error = "NULL"

\* RmOff size = rm_cmd_size_string_to_bytes(size_spec, &parse_error);
SizeStringToBytes ==
    /\ spc = "input"
    /\ LET r == rm_cmd_size_string_to_bytes(size_spec)
       IN  /\ \E v \in AsRmOff(r.product) : size_value' = v
           /\ size_error' = r.error
    /\ spc' = "done"
    /\ UNCHANGED <<spec_parts, size_spec, minsize, maxsize, limits_specified, limit_error>>
    /\ UNCHANGED nonSizeVars

\* rm_cmd_parse_limit_sizes(option_name, range_spec, session, error)
ParseLimitSizes ==
    /\ spc = "input"
    /\ \E r \in rm_cmd_size_range_string_to_bytes(size_spec) :
          IF r.crash
          THEN /\ spc' = "crashed"
               /\ UNCHANGED <<minsize, maxsize, limits_specified, limit_error>>
          ELSE /\ spc' = "done"
               /\ minsize' = r.min
               /\ maxsize' = r.max
               /\ IF r.ok
                     THEN /\ limits_specified' = TRUE
                          /\ limit_error' = "NULL"
                     ELSE /\ limits_specified' = limits_specified
                          /\ limit_error' = <<"cannot parse --limit: ", r.error>>
    /\ UNCHANGED <<spec_parts, size_spec, size_value, size_error>>
    /\ UNCHANGED nonSizeVars

SizeNext ==
    \/ SizeStringToBytes
    \/ ParseLimitSizes

(***************************************************************************)
(* rm_cmd_add_path, rm_cmd_read_paths_from_stdin, rm_cmd_set_paths         *)
(***************************************************************************)
\* The files of the model's file system and whether faccessat lets them be read.
ReadableFiles == {<<"a">>, <<"b">>, <<"/", "/", "a">>, <<"-", "a">>}
UnreadableFiles == {<<"x">>, <<"y">>}
IWD == <<"/", "w", "/">>     \* settings->iwd, set by rm_cmd_set_cwd

\* faccessat(AT_FDCWD, path, R_OK, AT_EACCESS) == 0
faccessat(path, cwd_ok) == IF path = IWD THEN cwd_ok ELSE path \in ReadableFiles

\* realpath(path, NULL): relative names are resolved against the working
\* directory, repeated leading slashes collapse.
RECURSIVE StripSlashes(_)
StripSlashes(p) == IF Len(p) >= 1 /\ p[1] = "/" THEN StripSlashes(Tail(p)) ELSE p

realpath(path) ==
    IF Len(path) >= 1 /\ path[1] = "/"
    THEN <<"/">> \o StripSlashes(path)
    ELSE IWD \o path

\* The arrays after g_realloc to n elements: the old elements are kept,
\* new ones are uninitialised.
Realloc(arr, n) == [k \in 1..n |-> IF k <= Len(arr) THEN arr[k] ELSE "uninit"]

\* rm_cmd_add_path(session, is_prefd, index, path) on the settings st.
AddPathIndex(index) == index

rm_cmd_add_path(st, flag, index, path, cwd_ok) ==
    IF ~faccessat(path, cwd_ok)
    THEN [ok |-> FALSE, st |-> st]
    ELSE LET ix == AddPathIndex(index)
             prefd == [Realloc(st.is_prefd, ix + 1) EXCEPT ![ix + 1] = flag]
             pths  == [Realloc(st.paths, ix + 2) EXCEPT ![ix + 1] = realpath(path),
                                                         ![ix + 2] = "NULL"]
         IN  [ok |-> TRUE, st |-> [paths |-> pths, is_prefd |-> prefd]]

\* rm_cmd_read_paths_from_stdin(session, is_prefd, index): one
\* rm_cmd_add_path per line until fgets meets the end of the input.
RECURSIVE rm_cmd_read_paths_from_stdin(_, _, _, _, _, _)
rm_cmd_read_paths_from_stdin(st, flag, index, lines, paths_added, cwd_ok) ==
    IF lines = <<>>
    THEN [paths_added |-> paths_added, st |-> st]
    ELSE LET r == rm_cmd_add_path(st, flag, index + paths_added, Head(lines), cwd_ok)
         IN  rm_cmd_read_paths_from_stdin(
                 r.st, flag, index, Tail(lines),
                 paths_added + (IF r.ok THEN 1 ELSE 0), cwd_ok)

Settings == [paths |-> settings_paths, is_prefd |-> settings_is_prefd]

PathArgs == ReadableFiles \cup UnreadableFiles \cup {<<"-">>, <<"/", "/">>}

StdinInputs == {<<>>, <<<<"b">>>>, <<<<"y">>, <<"b">>>>, <<<<"y">>>>}

\* Entry of rm_cmd_set_paths: no path is set yet.
PathsInit ==
    /\ ppc = "loop"
    /\ argv_paths \in SeqsUpTo(PathArgs, MaxArgs)
    /\ arg_i = 1
    /\ path_index = 0
    /\ is_prefd = FALSE
    /\ not_all_paths_read = FALSE
    /\ settings_paths = <<>>
    /\ settings_is_prefd = <<>>
    /\ stdin_given \in StdinInputs
    /\ stdin_lines = stdin_given
    /\ cwd_readable \in BOOLEAN
    /\ paths_ret = "none"

\* The end of one round of the for loop, read_paths paths having been added.
LoopTail(read_paths) ==
    /\ IF read_paths = 0
          THEN /\ not_all_paths_read' = TRUE
               /\ path_index' = path_index
          ELSE /\ not_all_paths_read' = not_all_paths_read
               /\ path_index' = path_index + read_paths
    /\ arg_i' = arg_i + 1

\* How many characters of the argument the tests for "-" and "//" compare.
DashCmpLen(arg) == 1
SepCmpLen(arg) == 2

IsStdinArg(arg) == StrNEq(arg, <<"-">>, DashCmpLen(arg))
IsSeparatorArg(arg) == StrNEq(arg, <<"/", "/">>, SepCmpLen(arg))

\* if(strncmp(dir_path, "-", 1) == 0) read_paths = rm_cmd_read_paths_from_stdin(..)
PathsReadStdin ==
    /\ ppc = "loop"
    /\ arg_i <= Len(argv_paths)
    /\ IsStdinArg(argv_paths[arg_i])
    /\ LET r == rm_cmd_read_paths_from_stdin(Settings, is_prefd, path_index,
                                             stdin_lines, 0, cwd_readable)
       IN  /\ settings_paths' = r.st.paths
           /\ settings_is_prefd' = r.st.is_prefd
           /\ LoopTail(r.paths_added)
    /\ stdin_lines' = <<>>
    /\ UNCHANGED <<ppc, argv_paths, is_prefd, stdin_given, cwd_readable, paths_ret>>
    /\ UNCHANGED nonPathVars

\* else if(strncmp(dir_path, "//", 2) == 0) is_prefd = !is_prefd;
PathsToggle ==
    /\ ppc = "loop"
    /\ arg_i <= Len(argv_paths)
    /\ ~IsStdinArg(argv_paths[arg_i])
    /\ IsSeparatorArg(argv_paths[arg_i])
    /\ is_prefd' = ~is_prefd
    /\ LoopTail(0)
    /\ UNCHANGED <<ppc, argv_paths, settings_paths, settings_is_prefd,
                   stdin_lines, stdin_given, cwd_readable, paths_ret>>
    /\ UNCHANGED nonPathVars

\* else read_paths = rm_cmd_add_path(session, is_prefd, path_index, paths[i]);
PathsAddPath ==
    /\ ppc = "loop"
    /\ arg_i <= Len(argv_paths)
    /\ ~IsStdinArg(argv_paths[arg_i])
    /\ ~IsSeparatorArg(argv_paths[arg_i])
    /\ LET r == rm_cmd_add_path(Settings, is_prefd, path_index,
                                argv_paths[arg_i], cwd_readable)
       IN  /\ settings_paths' = r.st.paths
           /\ settings_is_prefd' = r.st.is_prefd
           /\ LoopTail(IF r.ok THEN 1 ELSE 0)
    /\ UNCHANGED <<ppc, argv_paths, is_prefd, stdin_lines, stdin_given,
                   cwd_readable, paths_ret>>
    /\ UNCHANGED nonPathVars

\* After the loop: fall back to the working directory, or fail.
PathsFinish ==
    /\ ppc = "loop"
    /\ arg_i > Len(argv_paths)
    /\ IF path_index = 0 /\ ~not_all_paths_read
          THEN LET r == rm_cmd_add_path(Settings, is_prefd, path_index, IWD, cwd_readable)
               IN  /\ settings_paths' = r.st.paths
                   /\ settings_is_prefd' = r.st.is_prefd
                   /\ paths_ret' = TRUE
          ELSE /\ UNCHANGED <<settings_paths, settings_is_prefd>>
               /\ paths_ret' = ~(path_index = 0 /\ not_all_paths_read)
    /\ ppc' = "returned"
    /\ UNCHANGED <<argv_paths, arg_i, path_index, is_prefd, not_all_paths_read,
                   stdin_lines, stdin_given, cwd_readable>>
    /\ UNCHANGED nonPathVars

PathsNext ==
    \/ PathsReadStdin
    \/ PathsToggle
    \/ PathsAddPath
    \/ PathsFinish

(***************************************************************************)
(* rm_cmd_find_lint_types_sep, rm_cmd_parse_lint_types                     *)
(***************************************************************************)
AlphaChars == {"a", "b", "c", "d", "e", "f", "g", "h", "i", "j", "k", "l", "m",
               "n", "o", "p", "q", "r", "s", "t", "u", "v", "w", "x", "y", "z"}

isalpha(c) == c \in AlphaChars

\* The NUL character that ends a C string.
NUL == ""

RECURSIVE LeadingAlpha(_)
LeadingAlpha(str) ==
    IF str # <<>> /\ isalpha(Head(str)) THEN 1 + LeadingAlpha(Tail(str)) ELSE 0

\* if(*lint_string == '+' || *lint_string == '-') lint_string++;
MutLeadingSign(string) == 0
LeadingSign(string) ==
    IF string # <<>> /\ Head(string) \in {"+", "-"} THEN 1 ELSE 0

\* rm_cmd_find_lint_types_sep(lint_string): the character behind the
\* optional sign and the letters that follow it, NUL at the end of the string.
rm_cmd_find_lint_types_sep(string) ==
    LET rest == Drop(string, LeadingSign(string))
        n    == LeadingAlpha(rest)
    IN  IF n = Len(rest) THEN NUL ELSE rest[n + 1]

\* g_strsplit(string, delimiter, -1) for a delimiter of one character: no
\* token for the empty string, else one token more than there are delimiters.
RECURSIVE Tokens(_, _)
Tokens(str, c) ==
    LET d == strchr(str, c)
    IN  IF d = 0 THEN <<str>>
        ELSE <<SubSeq(str, 1, d - 1)>> \o Tokens(Drop(str, d), c)

g_strsplit_all(str, c) == IF str = <<>> THEN <<>> ELSE Tokens(str, c)

\* RmLintTypeOption option_table[]: the names of each set and the settings
\* it enables.
option_table == <<
    [names  |-> <<<<"a", "l", "l">>>>,
     enable |-> <<"findbadids", "findbadlinks", "findemptydirs", "listemptyfiles", "nonstripped", "searchdup", "merge_directories">>],
    [names  |-> <<<<"m", "i", "n", "i", "m", "a", "l">>>>,
     enable |-> <<"findbadids", "findbadlinks", "searchdup">>],
    [names  |-> <<<<"m", "i", "n", "i", "m", "a", "l", "d", "i", "r", "s">>>>,
     enable |-> <<"findbadids", "findbadlinks", "merge_directories">>],
    [names  |-> <<<<"d", "e", "f", "a", "u", "l", "t", "s">>>>,
     enable |-> <<"findbadids", "findbadlinks", "findemptydirs", "listemptyfiles", "searchdup">>],
    [names  |-> <<<<"n", "o", "n", "e">>>>,
     enable |-> <<>>],
    [names  |-> <<<<"b", "a", "d", "i", "d", "s">>, <<"b", "i">>>>,
     enable |-> <<"findbadids">>],
    [names  |-> <<<<"b", "a", "d", "l", "i", "n", "k", "s">>, <<"b", "l">>>>,
     enable |-> <<"findbadlinks">>],
    [names  |-> <<<<"e", "m", "p", "t", "y", "d", "i", "r", "s">>, <<"e", "d">>>>,
     enable |-> <<"findemptydirs">>],
    [names  |-> <<<<"e", "m", "p", "t", "y", "f", "i", "l", "e", "s">>, <<"e", "f">>>>,
     enable |-> <<"listemptyfiles">>],
    [names  |-> <<<<"n", "o", "n", "s", "t", "r", "i", "p", "p", "e", "d">>, <<"n", "s">>>>,
     enable |-> <<"nonstripped">>],
    [names  |-> <<<<"d", "u", "p", "l", "i", "c", "a", "t", "e", "s">>, <<"d", "f">>, <<"d", "u", "p", "e", "s">>>>,
     enable |-> <<"searchdup">>],
    [names  |-> <<<<"d", "u", "p", "l", "i", "c", "a", "t", "e", "d", "i", "r", "s">>, <<"d", "d">>, <<"d", "u", "p", "e", "d", "i", "r", "s">>>>,
     enable |-> <<"merge_directories">>] >>

\* lfind(lint_type, &option_table, ..., rm_cmd_find_line_type_func): the
\* index of the first entry that has the name, 0 for NULL.
lfind(lint_type) ==
    LET hits == {k \in 1..Len(option_table) :
                    \E n \in 1..Len(option_table[k].names) :
                        option_table[k].names[n] = lint_type}
    IN  IF hits = {} THEN 0 ELSE CHOOSE k \in hits : \A j \in hits : k <= j

\* *option->enable[i] = (sign == -1) ? false : true;
MutEnableValue(sign) == TRUE
EnableValue(sign) == sign # 0 - 1

\* for(int i = 0; enable[i]; i++) *enable[i] = value;
RECURSIVE SetAll(_, _, _)
SetAll(settings, enable, value) ==
    IF enable = <<>> THEN settings
    ELSE SetAll([settings EXCEPT ![Head(enable)] = value], Tail(enable), value)

\* One round of the loop over lint_types, index counted from 0 as in the
\* code: the settings after it.
LintTypeApplied(settings, lint_type, index) ==
    LET sign == IF lint_type # <<>> /\ Head(lint_type) = "+" THEN 1
                ELSE IF lint_type # <<>> /\ Head(lint_type) = "-" THEN 0 - 1
                ELSE 0
        name == IF sign = 0 THEN lint_type ELSE Tail(lint_type)
        option == lfind(name)
        cleared == IF sign = 0
                   THEN SetAll(settings, option_table[1].enable, FALSE)
                   ELSE settings
    IN  IF index > 0 /\ sign = 0 THEN settings
        ELSE IF option = 0 THEN settings
        ELSE SetAll(cleared, option_table[option].enable, EnableValue(sign))

\* if(settings->merge_directories) { ignore_hidden = false;
\* find_hardlinked_dupes = true; }
MergeDirectoriesPulledIn(settings) ==
    IF settings.merge_directories
    THEN [settings EXCEPT !.ignore_hidden = FALSE, !.find_hardlinked_dupes = TRUE]
    ELSE settings

RECURSIVE LintTypesApplied(_, _, _)
LintTypesApplied(settings, types, index) ==
    IF index >= Len(types) THEN settings
    ELSE LintTypesApplied(LintTypeApplied(settings, types[index + 1], index),
                          types, index + 1)

\* The separator rm_cmd_parse_lint_types splits at.
LintSep(lint_str) ==
    IF rm_cmd_find_lint_types_sep(lint_str) = NUL THEN ","
    ELSE rm_cmd_find_lint_types_sep(lint_str)

\* rm_cmd_parse_lint_types(option_name, lint_string, session, error): the
\* settings it leaves; it returns true.
rm_cmd_parse_lint_types(settings, lint_str) ==
    MergeDirectoriesPulledIn(
        LintTypesApplied(settings, g_strsplit_all(lint_str, LintSep(lint_str)), 0))

(***************************************************************************)
(* rm_cmd_parse_args: the option callbacks, in the order in which          *)
(* g_option_context_parse meets the options, and what follows the parse    *)
(***************************************************************************)
\* GError *error = NULL;
NoError == <<>>

\* exit_status while the process runs.
NoExit == 0 - 1

\* The unit of a clamp factor: gdouble values are held in hundredths.
FactorOne == 100

\* g_set_error(error, ...): an error that is already set stays (GLib only
\* warns about the second one).
g_set_error(err, msg) == IF err = NoError THEN msg ELSE err

Stdout == <<"s", "t", "d", "o", "u", "t">>
Summary == [name |-> <<"s", "u", "m", "m", "a", "r", "y">>, path |-> Stdout]
ShScript == [name |-> <<"s", "h">>, path |-> <<"r", "m", "l", "i", "n", "t", ".", "s", "h">>]
Pretty == [name |-> <<"p", "r", "e", "t", "t", "y">>, path |-> Stdout]
Progressbar == [name |-> <<"p", "r", "o", "g", "r", "e", "s", "s", "b", "a", "r">>, path |-> Stdout]
StampName == <<"s", "t", "a", "m", "p">>

\* The formatters rm_fmt_add knows by name.
KnownFormatters ==
    {Summary.name, ShScript.name, Pretty.name, Progressbar.name, StampName, <<"p", "y">>}

\* rm_fmt_add(formats, name, path): FALSE for a name that is no formatter.
rm_fmt_add(formats, name, path) ==
    IF name \in KnownFormatters
    THEN [ok |-> TRUE, formats |-> formats \cup {[name |-> name, path |-> path]}]
    ELSE [ok |-> FALSE, formats |-> formats]

\* The settings as rm_set_default_settings leaves them.
DefaultSettings ==
    [checksum_type |-> "RM_DEFAULT_DIGEST",
     keep_all_tagged |-> FALSE, keep_all_untagged |-> FALSE,
     use_absolute_start_offset |-> FALSE, skip_start_factor |-> 0,
     skip_start_offset |-> Big(0),
     use_absolute_end_offset |-> FALSE, skip_end_factor |-> FactorOne,
     skip_end_offset |-> Big(0),
     paranoid_mem |-> Big(0), filter_mtime |-> FALSE, min_mtime |-> 0,
     color |-> TRUE, ignore_hidden |-> TRUE, find_hardlinked_dupes |-> FALSE,
     findbadids |-> TRUE, findbadlinks |-> TRUE, findemptydirs |-> TRUE,
     listemptyfiles |-> TRUE, nonstripped |-> FALSE, searchdup |-> TRUE,
     merge_directories |-> FALSE]

\* The session as rm_session_init leaves it: no -o and no -O counted yet,
\* and the hash seeds not yet drawn.
NewSession ==
    [output_cnt |-> <<0 - 1, 0 - 1>>, formats |-> {}, paranoia_count |-> 0,
     cache_list |-> <<>>, cleared |-> FALSE,
     hash_seed1 |-> "initial", hash_seed2 |-> "initial"]

\* No callback has returned yet.
NoCallback == [ok |-> TRUE, error |-> NoError]

ArgsIdle ==
    /\ apc = "idle"
    /\ argc = 0
    /\ argv_opts = <<>>
    /\ gerror = NoError
    /\ error_lines = <<>>
    /\ exit_status = NoExit
    /\ parse_result = "none"
    /\ cfg = DefaultSettings
    /\ session = NewSession
    /\ tty = <<TRUE, TRUE>>
    /\ callback_ret = NoCallback

\* Entry of rm_cmd_parse_args, up to the call of g_option_context_parse,
\* for a command line of up to MaxOpts options started from a terminal.
ArgsInit ==
    /\ apc = "options"
    /\ argc \in 0..MaxOpts
    /\ argv_opts = <<>>
    /\ gerror = NoError
    /\ error_lines = <<>>
    /\ exit_status = NoExit
    /\ parse_result = "none"
    /\ cfg = DefaultSettings
    /\ session = NewSession
    /\ tty = <<TRUE, TRUE>>
    /\ callback_ret = NoCallback

\* The same entry for the command lines of up to MaxFlags flags, with stdout
\* and stderr terminals or not.
FlagsInit ==
    /\ apc = "options"
    /\ argc \in 0..MaxFlags
    /\ argv_opts = <<>>
    /\ gerror = NoError
    /\ error_lines = <<>>
    /\ exit_status = NoExit
    /\ parse_result = "none"
    /\ cfg = DefaultSettings
    /\ session = NewSession
    /\ tty \in BOOLEAN \X BOOLEAN
    /\ callback_ret = NoCallback

\* rm_cmd_die(session, status): rm_session_clear(session); exit(status);
rm_cmd_die(session1, status) ==
    /\ session' = [session1 EXCEPT !.cleared = TRUE]
    /\ exit_status' = status
    /\ apc' = "exited"
    /\ parse_result' = parse_result

\* rm_cmd_on_error: rm_log_error_line("%s.", (*error)->message); rm_cmd_die(..)
rm_cmd_on_error(err, session1) ==
    /\ error_lines' = Append(error_lines, err \o <<".">>)
    /\ rm_cmd_die(session1, EXIT_FAILURE)

\* g_option_context_parse meets one more option.
OptionTaken(opt, arg) ==
    /\ apc = "options"
    /\ Len(argv_opts) < argc
    /\ argc' = argc
    /\ argv_opts' = Append(argv_opts, [opt |-> opt, arg |-> arg])

\* What g_option_context_parse does once a callback has returned: it goes
\* on after TRUE; after FALSE it sets its own error unless the callback has
\* set one, calls the error hook of the group (rm_cmd_on_error) and fails.
CallbackReturned(opt, ok, err, cfg1, session1) ==
    /\ cfg' = cfg1
    /\ callback_ret' = [ok |-> ok, error |-> err]
    /\ tty' = tty
    /\ IF ok
          THEN /\ gerror' = err
               /\ session' = session1
               /\ UNCHANGED <<apc, error_lines, exit_status, parse_result>>
          ELSE LET e == g_set_error(err, <<"Error parsing option ", opt>>)
               IN  /\ gerror' = e
                   /\ rm_cmd_on_error(e, session1)

\* A callback that ends the process itself, after one ERROR line.
CallbackDied(line) ==
    /\ error_lines' = Append(error_lines, line)
    /\ rm_cmd_die(session, EXIT_FAILURE)
    /\ UNCHANGED <<cfg, gerror, tty, callback_ret>>

\* rm_cmd_parse_limit_sizes: what it writes for the outcome r of
\* rm_cmd_size_range_string_to_bytes.
LimitSizesWritten(r) ==
    /\ minsize' = r.min
    /\ maxsize' = r.max
    /\ IF r.ok
          THEN /\ limits_specified' = TRUE
               /\ limit_error' = "NULL"
          ELSE /\ limits_specified' = limits_specified
               /\ limit_error' = <<"cannot parse --limit: ", r.error>>

SizeArgs == {<<"1">>, <<"9", "-", "1">>}

\* -s: rm_cmd_parse_limit_sizes
ArgLimitSizes ==
    /\ \E range_spec \in SizeArgs :
          /\ OptionTaken("-s", range_spec)
          /\ \E r \in rm_cmd_size_range_string_to_bytes(range_spec) :
                /\ ~r.crash
                /\ LimitSizesWritten(r)
                /\ CallbackReturned("-s", r.ok,
                       IF r.ok THEN gerror
                       ELSE g_set_error(gerror, <<"cannot parse --limit: ", r.error>>),
                       cfg, session)
    /\ UNCHANGED <<spc, spec_parts, size_spec, size_value, size_error>>
    /\ UNCHANGED <<mainVars, pathVars, lintVars, pairVars>>

\* rm_string_to_digest_type(value), for the names of the model.
rm_string_to_digest_type(value) ==
    IF value = <<"m", "d", "5">> THEN "RM_DIGEST_MD5"
    ELSE IF value = <<"b", "a", "s", "t", "a", "r", "d">> THEN "RM_DIGEST_BASTARD"
    ELSE "RM_DIGEST_UNKNOWN"

AlgorithmArgs == {<<"m", "d", "5">>, <<"b", "a", "s", "t", "a", "r", "d">>, <<"z", "z">>}

\* session->hash_seed1 = time(NULL) * ...; session->hash_seed2 = ...;
SeedsDrawn(session1) ==
    [session1 EXCEPT !.hash_seed1 = "seeded", !.hash_seed2 = "seeded"]

\* -a: rm_cmd_parse_algorithm sets the error and still returns true; it
\* draws the hash seeds when the type is bastard.
ArgAlgorithm ==
    /\ \E value \in AlgorithmArgs :
          /\ OptionTaken("-a", value)
          /\ LET type == rm_string_to_digest_type(value)
             IN  CallbackReturned("-a", TRUE,
                     IF type = "RM_DIGEST_UNKNOWN"
                     THEN g_set_error(gerror, <<"Unknown hash algorithm: '">> \o value \o <<"'">>)
                     ELSE gerror,
                     [cfg EXCEPT !.checksum_type = type],
                     IF type = "RM_DIGEST_BASTARD" THEN SeedsDrawn(session) ELSE session)
    /\ UNCHANGED nonArgsVars

\* rm_cmd_parse_output_pair(session, pair, error): its return value, the
\* formats and *error.
rm_cmd_parse_output_pair(formats, pair, err) ==
    LET separator   == strchr(pair, ":")
        full_path   == IF separator = 0 THEN Stdout ELSE Drop(pair, separator)
        format_name == IF separator = 0 THEN pair
                       ELSE SubSeq(pair, 1, Min(100, separator - 1))
        added       == rm_fmt_add(formats, format_name, full_path)
    IN  [ok |-> added.ok, formats |-> added.formats,
         error |-> IF added.ok THEN err
                   ELSE g_set_error(err, <<"Adding -o ">> \o pair \o <<" as output failed.">>)]

\* rm_cmd_parse_small_output (n = 1), rm_cmd_parse_large_output (n = 2):
\* output_cnt[n] = MAX(output_cnt[n], 0) + rm_cmd_parse_output_pair(..);
\* return true;
OutputCounted(opt, n, output_pair) ==
    LET r == rm_cmd_parse_output_pair(session.formats, output_pair, gerror)
        max == IF session.output_cnt[n] > 0 THEN session.output_cnt[n] ELSE 0
    IN  CallbackReturned(opt, TRUE, r.error, cfg,
            [session EXCEPT !.formats = r.formats,
                            !.output_cnt[n] = max + (IF r.ok THEN 1 ELSE 0)])

OutputArgs == {<<"p", "y", ":", "x">>, <<"p", "y">>, <<"z", "z">>}

\* -o: rm_cmd_parse_small_output
ArgSmallOutput ==
    /\ \E output_pair \in OutputArgs :
          /\ OptionTaken("-o", output_pair)
          /\ OutputCounted("-o", 1, output_pair)
    /\ UNCHANGED nonArgsVars

\* -O: rm_cmd_parse_large_output
ArgLargeOutput ==
    /\ \E output_pair \in OutputArgs :
          /\ OptionTaken("-O", output_pair)
          /\ OutputCounted("-O", 2, output_pair)
    /\ UNCHANGED nonArgsVars

MemArgs == {<<"1", "k">>, <<"x">>}

\* -u: rm_cmd_parse_paranoid_mem
ArgParanoidMem ==
    /\ \E size_str \in MemArgs :
          /\ OptionTaken("-u", size_str)
          /\ LET r == rm_cmd_size_string_to_bytes(size_str)
             IN  IF r.error # "NULL"
                 THEN CallbackReturned("-u", FALSE,
                          g_set_error(gerror, <<"Invalid size description \"">> \o size_str
                                                  \o <<"\": ", r.error>>),
                          cfg, session)
                 ELSE \E size \in AsRmOff(r.product) :
                          CallbackReturned("-u", TRUE, gerror,
                              [cfg EXCEPT !.paranoid_mem = size], session)
    /\ UNCHANGED nonArgsVars

\* strtoll(string, NULL, 10)
strtoll(string) ==
    LET num == strtold(string)
    IN  IF num.negative THEN 0 - num.decimal ELSE num.decimal

\* What rm_iso8601_parse may return: 0 for a stamp it cannot read.
Iso8601Results == {0, 1}

\* rm_cmd_parse_timestamp(option_name, string, session, error): the set of
\* its outcomes.
rm_cmd_parse_timestamp(cfg1, string, err) ==
    LET plain == strchr(string, "T") = 0
    IN  {IF result <= 0
         THEN [ok |-> FALSE, cfg |-> [cfg1 EXCEPT !.filter_mtime = FALSE],
               error |-> g_set_error(err, <<"Unable to parse time spec \"">> \o string
                                              \o <<"\"">>)]
         ELSE [ok |-> TRUE,
               cfg |-> [cfg1 EXCEPT !.filter_mtime = TRUE, !.min_mtime = result],
               error |-> err] :
            result \in IF plain THEN {strtoll(string)} ELSE Iso8601Results}

TimestampArgs == {<<"1">>, <<"0">>, <<"1", "T">>}

\* -N: rm_cmd_parse_timestamp
ArgTimestamp ==
    /\ \E string \in TimestampArgs :
          /\ OptionTaken("-N", string)
          /\ \E r \in rm_cmd_parse_timestamp(cfg, string, gerror) :
                CallbackReturned("-N", r.ok, r.error, r.cfg, session)
    /\ UNCHANGED nonArgsVars

\* The stamp files of the model: whether fopen succeeds, and the lines.
StampFiles ==
    [path \in {<<"t">>, <<"e">>, <<"x">>} |->
        IF path = <<"t">> THEN [readable |-> TRUE, lines |-> <<<<"1", "\n">>>>]
        ELSE IF path = <<"e">> THEN [readable |-> TRUE, lines |-> <<>>]
        ELSE [readable |-> FALSE, lines |-> <<>>]]

\* -n: rm_cmd_parse_timestamp_file returns false without an error of its own
\* when the file cannot be opened or is empty.
ArgTimestampFile ==
    /\ \E timestamp_path \in DOMAIN StampFiles :
          /\ OptionTaken("-n", timestamp_path)
          /\ LET stamp_file == StampFiles[timestamp_path]
                 cfg1 == [cfg EXCEPT !.filter_mtime = FALSE]
             IN  IF stamp_file.readable /\ stamp_file.lines # <<>>
                 THEN \E r \in rm_cmd_parse_timestamp(cfg1, g_strstrip(stamp_file.lines[1]),
                                                      gerror) :
                         CallbackReturned("-n", r.ok, r.error, r.cfg,
                             IF r.ok
                             THEN [session EXCEPT !.formats =
                                      rm_fmt_add(session.formats, StampName,
                                                 timestamp_path).formats]
                             ELSE session)
                 ELSE CallbackReturned("-n", FALSE, gerror, cfg1, session)
    /\ UNCHANGED nonArgsVars

\* g_strtod(string, &error_loc): blanks, an optional sign, digits, an
\* optional point and digits; the value in hundredths (two decimals are
\* kept), consumed = error_loc - string.
g_strtod(string) ==
    LET ws       == LeadingSpaces(string)
        rest     == Drop(string, ws)
        neg      == rest # <<>> /\ Head(rest) = "-"
        body     == IF neg THEN Tail(rest) ELSE rest
        ni       == LeadingDigits(body)
        afterInt == Drop(body, ni)
        hasPoint == afterInt # <<>> /\ Head(afterInt) = "."
        nf       == IF hasPoint THEN LeadingDigits(Tail(afterInt)) ELSE 0
        frac     == IF hasPoint THEN SubSeq(afterInt, 2, 1 + nf) ELSE <<>>
        cents    == IF nf = 0 THEN 0
                    ELSE IF nf = 1 THEN 10 * DigitVal(frac[1])
                    ELSE 10 * DigitVal(frac[1]) + DigitVal(frac[2])
        abs      == FactorOne * DigitsValue(SubSeq(body, 1, ni)) + cents
    IN  IF ni = 0 /\ nf = 0
        THEN [value |-> 0, consumed |-> 0]
        ELSE [value |-> IF neg THEN 0 - abs ELSE abs,
              consumed |-> ws + (IF neg THEN 1 ELSE 0) + ni
                              + (IF hasPoint THEN 1 + nf ELSE 0)]

\* rm_cmd_parse_clamp_factor(session, string): the factor, or the ERROR line
\* after which it ends the process.
rm_cmd_parse_clamp_factor(string) ==
    LET parsed    == g_strtod(string)
        error_loc == Drop(string, parsed.consumed)
        percent   == error_loc # <<>> /\ Head(error_loc) = "%"
        factor    == IF percent THEN parsed.value \div 100 ELSE parsed.value
    IN  IF error_loc # <<>> /\ ~percent
        THEN [died |-> TRUE, factor |-> 0,
              line |-> <<"Unable to parse factor \"">> \o string
                          \o <<"\": error begins at ">> \o error_loc]
        ELSE IF 0 > factor \/ factor > FactorOne
        THEN [died |-> TRUE, factor |-> factor,
              line |-> <<"factor value is not in range [0-1]: ", ToString(factor)>>]
        ELSE [died |-> FALSE, factor |-> factor, line |-> <<>>]

\* rm_cmd_parse_clamp_offset(session, string): the offsets it may return, or
\* the ERROR line after which it ends the process.
rm_cmd_parse_clamp_offset(string) ==
    LET r == rm_cmd_size_string_to_bytes(string)
    IN  IF r.error # "NULL"
        THEN {[died |-> TRUE, offset |-> Big(0),
               line |-> <<"Unable to parse offset \"">> \o string \o <<"\": ", r.error>>]}
        ELSE {[died |-> FALSE, offset |-> offset, line |-> <<>>] :
                  offset \in AsRmOff(r.product)}

\* use_absolute_start_offset = false; skip_start_factor = factor; (or _end_)
FactorSet(cfg1, factor, start_or_end) ==
    IF start_or_end
    THEN [cfg1 EXCEPT !.use_absolute_start_offset = FALSE, !.skip_start_factor = factor]
    ELSE [cfg1 EXCEPT !.use_absolute_end_offset = FALSE, !.skip_end_factor = factor]

\* use_absolute_start_offset = true; skip_start_offset = offset; (or _end_)
OffsetSet(cfg1, offset, start_or_end) ==
    IF start_or_end
    THEN [cfg1 EXCEPT !.use_absolute_start_offset = TRUE, !.skip_start_offset = offset]
    ELSE [cfg1 EXCEPT !.use_absolute_end_offset = TRUE, !.skip_end_offset = offset]

\* rm_cmd_parse_clamp_option(session, string, start_or_end): the settings it
\* may leave, or the ERROR line after which the process ends.
rm_cmd_parse_clamp_option(cfg1, string, start_or_end) ==
    IF strchr(string, ".") # 0 \/ (string # <<>> /\ string[Len(string)] = "%")
    THEN {[died |-> f.died, line |-> f.line,
           cfg |-> FactorSet(cfg1, f.factor, start_or_end)] :
              f \in {rm_cmd_parse_clamp_factor(string)}}
    ELSE {[died |-> o.died, line |-> o.line,
           cfg |-> OffsetSet(cfg1, o.offset, start_or_end)] :
              o \in rm_cmd_parse_clamp_offset(string)}

ClampArgs == {<<"5", "0", "%">>, <<"4", "0", "%">>, <<"1", "0", "0">>, <<"5", "0">>,
              <<"1", "5", "0", "%">>, <<".", "x">>, <<"x">>}

\* rm_cmd_parse_clamp_low (start_or_end = true), rm_cmd_parse_clamp_top
ClampParsed(opt, spec, start_or_end) ==
    \E r \in rm_cmd_parse_clamp_option(cfg, spec, start_or_end) :
        IF r.died THEN CallbackDied(r.line)
        ELSE CallbackReturned(opt, TRUE, gerror, r.cfg, session)

\* -q: rm_cmd_parse_clamp_low
ArgClampLow ==
    /\ \E spec \in ClampArgs :
          /\ OptionTaken("-q", spec)
          /\ ClampParsed("-q", spec, TRUE)
    /\ UNCHANGED nonArgsVars

\* -Q: rm_cmd_parse_clamp_top
ArgClampTop ==
    /\ \E spec \in ClampArgs :
          /\ OptionTaken("-Q", spec)
          /\ ClampParsed("-Q", spec, FALSE)
    /\ UNCHANGED nonArgsVars

\* g_file_test(cache_path, G_FILE_TEST_IS_REGULAR)
g_file_test(cache_path) == cache_path \in ReadableFiles

CacheArgs == {<<"a">>, <<"x">>}

\* -C: rm_cmd_parse_cache
ArgCache ==
    /\ \E cache_path \in CacheArgs :
          /\ OptionTaken("-C", cache_path)
          /\ IF ~g_file_test(cache_path)
                THEN CallbackReturned("-C", FALSE,
                         g_set_error(gerror, <<"There is no cache at `">> \o cache_path
                                                 \o <<"'">>),
                         cfg, session)
                ELSE CallbackReturned("-C", TRUE, gerror, cfg,
                         [session EXCEPT !.cache_list = Append(@, cache_path)])
    /\ UNCHANGED nonArgsVars

\* -g: rm_cmd_parse_progress
ArgProgress ==
    /\ OptionTaken("-g", <<>>)
    /\ CallbackReturned("-g", TRUE, gerror, cfg,
           [session EXCEPT !.formats = {Progressbar, Summary, ShScript}])
    /\ UNCHANGED nonArgsVars

\* -G: rm_cmd_parse_no_progress
ArgNoProgress ==
    /\ OptionTaken("-G", <<>>)
    /\ CallbackReturned("-G", TRUE, gerror, cfg,
           [session EXCEPT !.formats = {Pretty, Summary, ShScript}])
    /\ UNCHANGED nonArgsVars

\* rm_cmd_set_paranoia_from_cnt(settings, paranoia_counter, error), in a
\* build with HAVE_SHA512.
rm_cmd_set_paranoia_from_cnt(cfg1, paranoia_counter, err) ==
    IF paranoia_counter = 0 - 2
    THEN [cfg |-> [cfg1 EXCEPT !.checksum_type = "RM_DIGEST_SPOOKY32"], error |-> err]
    ELSE IF paranoia_counter = 0 - 1
    THEN [cfg |-> [cfg1 EXCEPT !.checksum_type = "RM_DIGEST_SPOOKY64"], error |-> err]
    ELSE IF paranoia_counter = 0
    THEN [cfg |-> cfg1, error |-> err]
    ELSE IF paranoia_counter = 1
    THEN [cfg |-> [cfg1 EXCEPT !.checksum_type = "RM_DIGEST_BASTARD"], error |-> err]
    ELSE IF paranoia_counter = 2
    THEN [cfg |-> [cfg1 EXCEPT !.checksum_type = "RM_DIGEST_SHA512"], error |-> err]
    ELSE IF paranoia_counter = 3
    THEN [cfg |-> [cfg1 EXCEPT !.checksum_type = "RM_DIGEST_PARANOID"], error |-> err]
    ELSE [cfg |-> cfg1,
          error |-> g_set_error(err, <<"Only up to -ppp or down to -P flags allowed.">>)]

\* rm_cmd_parse_paranoid (step = 1), rm_cmd_parse_less_paranoid (step = -1)
ParanoiaCounted(opt, step) ==
    LET count == session.paranoia_count + step
        r == rm_cmd_set_paranoia_from_cnt(cfg, count, gerror)
    IN  CallbackReturned(opt, TRUE, r.error, r.cfg,
            [session EXCEPT !.paranoia_count = count])

\* -p: rm_cmd_parse_paranoid
ArgParanoid ==
    /\ OptionTaken("-p", <<>>)
    /\ ParanoiaCounted("-p", 1)
    /\ UNCHANGED nonArgsVars

\* -P: rm_cmd_parse_less_paranoid
ArgLessParanoid ==
    /\ OptionTaken("-P", <<>>)
    /\ ParanoiaCounted("-P", 0 - 1)
    /\ UNCHANGED nonArgsVars

\* -w: G_OPTION_ARG_NONE, &cfg->color
ArgWithColor ==
    /\ OptionTaken("-w", <<>>)
    /\ CallbackReturned("-w", TRUE, gerror, [cfg EXCEPT !.color = TRUE], session)
    /\ UNCHANGED nonArgsVars

\* -W: G_OPTION_ARG_NONE with G_OPTION_FLAG_REVERSE, &cfg->color
ArgNoWithColor ==
    /\ OptionTaken("-W", <<>>)
    /\ CallbackReturned("-W", TRUE, gerror, [cfg EXCEPT !.color = FALSE], session)
    /\ UNCHANGED nonArgsVars

\* -r: G_OPTION_ARG_NONE with G_OPTION_FLAG_REVERSE, &cfg->ignore_hidden
ArgHidden ==
    /\ OptionTaken("-r", <<>>)
    /\ CallbackReturned("-r", TRUE, gerror, [cfg EXCEPT !.ignore_hidden = FALSE], session)
    /\ UNCHANGED nonArgsVars

\* -R: G_OPTION_ARG_NONE, &cfg->ignore_hidden
ArgNoHidden ==
    /\ OptionTaken("-R", <<>>)
    /\ CallbackReturned("-R", TRUE, gerror, [cfg EXCEPT !.ignore_hidden = TRUE], session)
    /\ UNCHANGED nonArgsVars

\* -l: G_OPTION_ARG_NONE, &cfg->find_hardlinked_dupes
ArgHardlinked ==
    /\ OptionTaken("-l", <<>>)
    /\ CallbackReturned("-l", TRUE, gerror,
                        [cfg EXCEPT !.find_hardlinked_dupes = TRUE], session)
    /\ UNCHANGED nonArgsVars

\* -L: G_OPTION_ARG_NONE with G_OPTION_FLAG_REVERSE, &cfg->find_hardlinked_dupes
ArgNoHardlinked ==
    /\ OptionTaken("-L", <<>>)
    /\ CallbackReturned("-L", TRUE, gerror,
                        [cfg EXCEPT !.find_hardlinked_dupes = FALSE], session)
    /\ UNCHANGED nonArgsVars

\* -D: rm_cmd_parse_merge_directories
ArgMergeDirectories ==
    /\ OptionTaken("-D", <<>>)
    /\ CallbackReturned("-D", TRUE, gerror,
            [cfg EXCEPT !.merge_directories = TRUE,
                        !.find_hardlinked_dupes = TRUE,
                        !.ignore_hidden = FALSE], session)
    /\ UNCHANGED nonArgsVars

LintArgs == {<<"+", "d", "d">>, <<"+", "b", "i">>}

\* -T: rm_cmd_parse_lint_types
ArgLintTypes ==
    /\ \E string \in LintArgs :
          /\ OptionTaken("-T", string)
          /\ CallbackReturned("-T", TRUE, gerror,
                              rm_cmd_parse_lint_types(cfg, string), session)
    /\ UNCHANGED nonArgsVars

\* -k: G_OPTION_ARG_NONE, &cfg->keep_all_tagged
ArgKeepAllTagged ==
    /\ OptionTaken("-k", <<>>)
    /\ CallbackReturned("-k", TRUE, gerror, [cfg EXCEPT !.keep_all_tagged = TRUE], session)
    /\ UNCHANGED nonArgsVars

\* -K: G_OPTION_ARG_NONE, &cfg->keep_all_untagged
ArgKeepAllUntagged ==
    /\ OptionTaken("-K", <<>>)
    /\ CallbackReturned("-K", TRUE, gerror, [cfg EXCEPT !.keep_all_untagged = TRUE], session)
    /\ UNCHANGED nonArgsVars

\* --version: rm_cmd_show_version prints and calls exit(0).
ArgShowVersion ==
    /\ OptionTaken("--version", <<>>)
    /\ exit_status' = 0
    /\ apc' = "exited"
    /\ UNCHANGED <<gerror, error_lines, parse_result, cfg, session, tty, callback_ret>>
    /\ UNCHANGED nonArgsVars

\* -H: rm_cmd_show_help shows the manpage and calls exit(0).
ArgShowHelp ==
    /\ OptionTaken("-H", <<>>)
    /\ exit_status' = 0
    /\ apc' = "exited"
    /\ UNCHANGED <<gerror, error_lines, parse_result, cfg, session, tty, callback_ret>>
    /\ UNCHANGED nonArgsVars

\* The positional arguments and the standard input of a command line.
ArgPaths == {<<>>, <<<<"a">>>>, <<<<"x">>>>, <<<<"-">>>>, <<<<"/", "/">>>>}
ArgStdin == <<<<"b">>>>

\* cfg->color = isatty(fileno(stdout)) && isatty(fileno(stderr));
MutColorOverwritten(cfg1) == cfg1
ColorOverwritten(cfg1) == [cfg1 EXCEPT !.color = tty[1] /\ tty[2]]

\* g_option_context_parse has returned TRUE: the checks of the settings,
\* up to the call of rm_cmd_set_paths.
ArgsParsed ==
    /\ apc = "options"
    /\ Len(argv_opts) = argc
    /\ argc' = argc
    /\ cfg' = ColorOverwritten(cfg)
    /\ UNCHANGED <<argv_opts, tty, callback_ret>>
    /\ IF cfg.keep_all_tagged /\ cfg.keep_all_untagged
          THEN LET e == <<"can't specify both --keep-all-tagged and --keep-all-untagged">>
               IN  /\ gerror' = e
                   /\ rm_cmd_on_error(e, session)
                   /\ UNCHANGED pathVars
          ELSE IF cfg.skip_start_factor >= cfg.skip_end_factor
          THEN LET e == <<"-q (--clamp-low) should be lower than -Q (--clamp-top)!">>
               IN  /\ gerror' = e
                   /\ rm_cmd_on_error(e, session)
                   /\ UNCHANGED pathVars
          ELSE /\ apc' = "set_paths"
               /\ ppc' = "loop"
               /\ argv_paths' \in ArgPaths
               /\ stdin_given' = ArgStdin
               /\ stdin_lines' = ArgStdin
               /\ UNCHANGED <<arg_i, path_index, is_prefd, not_all_paths_read,
                              settings_paths, settings_is_prefd, cwd_readable, paths_ret>>
               /\ UNCHANGED <<gerror, error_lines, exit_status, parse_result, session>>
    /\ UNCHANGED <<mainVars, sizeVars, lintVars, pairVars>>

\* rm_cmd_set_outputs(session, error): its return value, the formats and
\* *error.
rm_cmd_set_outputs(session1, err) ==
    IF session1.output_cnt[1] >= 0 /\ session1.output_cnt[2] >= 0
    THEN [ok |-> FALSE, formats |-> session1.formats,
          error |-> g_set_error(err, <<"Specifiyng both -o and -O is not allowed.">>)]
    ELSE IF session1.output_cnt[1] < 0 /\ session1.output_cnt[2] < 0
            /\ Cardinality(session1.formats) = 0
    THEN [ok |-> TRUE, formats |-> {Pretty, Summary, ShScript}, error |-> err]
    ELSE [ok |-> TRUE, formats |-> session1.formats, error |-> err]

\* rm_cmd_set_paths has returned: the outputs, and the report of an error.
ArgsSetOutputs ==
    /\ apc = "set_paths"
    /\ ppc = "returned"
    /\ UNCHANGED <<argc, argv_opts, cfg, tty, callback_ret>>
    /\ IF ~paths_ret
          THEN LET e == <<"No valid paths given.">>
               IN  /\ gerror' = e
                   /\ rm_cmd_on_error(e, session)
          ELSE LET r == rm_cmd_set_outputs(session, gerror)
                   session1 == [session EXCEPT !.formats = r.formats]
               IN  /\ gerror' = r.error
                   /\ IF r.error # NoError
                         THEN rm_cmd_on_error(r.error, session1)
                         ELSE /\ session' = session1
                              /\ parse_result' = "true"
                              /\ apc' = "returned"
                              /\ UNCHANGED <<error_lines, exit_status>>
    /\ UNCHANGED nonArgsVars

ArgsNext ==
    \/ ArgLimitSizes
    \/ ArgAlgorithm
    \/ ArgSmallOutput
    \/ ArgLargeOutput
    \/ ArgParanoidMem
    \/ ArgTimestamp
    \/ ArgTimestampFile
    \/ ArgClampLow
    \/ ArgClampTop
    \/ ArgCache
    \/ ArgProgress
    \/ ArgNoProgress
    \/ ArgParanoid
    \/ ArgLessParanoid
    \/ ArgKeepAllTagged
    \/ ArgKeepAllUntagged
    \/ ArgShowVersion
    \/ ArgShowHelp
    \/ ArgsParsed
    \/ PathsReadStdin
    \/ PathsToggle
    \/ PathsAddPath
    \/ PathsFinish
    \/ ArgsSetOutputs

\* The command lines made of -a, -p and -P.
DigestNext ==
    \/ ArgAlgorithm
    \/ ArgParanoid
    \/ ArgLessParanoid
    \/ ArgsParsed
    \/ PathsReadStdin
    \/ PathsToggle
    \/ PathsAddPath
    \/ PathsFinish
    \/ ArgsSetOutputs

\* The command lines made of -w, -W, -r, -R, -l, -L, -D and -T.
FlagsNext ==
    \/ ArgWithColor
    \/ ArgNoWithColor
    \/ ArgHidden
    \/ ArgNoHidden
    \/ ArgHardlinked
    \/ ArgNoHardlinked
    \/ ArgMergeDirectories
    \/ ArgLintTypes
    \/ ArgsParsed
    \/ PathsReadStdin
    \/ PathsToggle
    \/ PathsAddPath
    \/ PathsFinish
    \/ ArgsSetOutputs

(***************************************************************************)
(* rm_cmd_parse_lint_types, one round of its loop at a time                *)
(***************************************************************************)
LintIdle ==
    /\ lpc = "idle"
    /\ lint_string = <<>>
    /\ lint_sep = NUL
    /\ lint_types = <<>>
    /\ lint_index = 0
    /\ lint_settings = DefaultSettings
    /\ lint_ret = "none"

\* The arguments of -T: up to MaxItems items, each a name with or without a
\* sign, with a comma or a colon between two of them.
LintNames == {<<"d", "d">>, <<"m", "i", "n", "i", "m", "a", "l">>, <<"z", "z">>}

LintItems == {sign \o name : sign \in {<<>>, <<"+">>, <<"-">>}, name \in LintNames}

LintGaps == {",", ":"}

RECURSIVE LintStringsOf(_)
LintStringsOf(n) ==
    IF n = 1 THEN LintItems
    ELSE {str \o <<gap>> \o item :
            str \in LintStringsOf(n - 1), gap \in LintGaps, item \in LintItems}

LintStrings == {<<>>} \cup UNION {LintStringsOf(n) : n \in 1..MaxItems}

\* Entry of rm_cmd_parse_lint_types.
LintInit ==
    /\ lpc = "split"
    /\ lint_string \in LintStrings
    /\ lint_sep = NUL
    /\ lint_types = <<>>
    /\ lint_index = 0
    /\ lint_settings = DefaultSettings
    /\ lint_ret = "none"

\* Lines 523-530: the separator is inferred and the string is split at it.
LintSplit ==
    /\ lpc = "split"
    /\ lint_sep' = LintSep(lint_string)
    /\ lint_types' = g_strsplit_all(lint_string, LintSep(lint_string))
    /\ lint_index' = 0
    /\ lpc' = "loop"
    /\ UNCHANGED <<lint_string, lint_settings, lint_ret>>
    /\ UNCHANGED nonLintVars

\* Lines 533-575: one round of the loop over lint_types.
LintType ==
    /\ lpc = "loop"
    /\ lint_index < Len(lint_types)
    /\ lint_settings' =
           LintTypeApplied(lint_settings, lint_types[lint_index + 1], lint_index)
    /\ lint_index' = lint_index + 1
    /\ UNCHANGED <<lpc, lint_string, lint_sep, lint_types, lint_ret>>
    /\ UNCHANGED nonLintVars

\* Lines 578-585: behind the loop.
LintReturn ==
    /\ lpc = "loop"
    /\ lint_index = Len(lint_types)
    /\ lint_settings' = MergeDirectoriesPulledIn(lint_settings)
    /\ lint_ret' = "true"
    /\ lpc' = "returned"
    /\ UNCHANGED <<lint_string, lint_sep, lint_types, lint_index>>
    /\ UNCHANGED nonLintVars

LintNext ==
    \/ LintSplit
    \/ LintType
    \/ LintReturn

(***************************************************************************)
(* rm_cmd_parse_output_pair and its buffer format_name                     *)
(***************************************************************************)
\* sizeof(format_name)
FormatNameSize == 100

PairIdle ==
    /\ opc = "idle"
    /\ pair_given = <<>>
    /\ format_name_buf = <<>>
    /\ written = 0
    /\ name_read = <<>>
    /\ pair_ret = "none"

\* A format name of n characters.
LongName(n) == [k \in 1..n |-> "a"]

\* The pairs of the model: names of every length up to MaxPairLen, alone and
\* with a path behind a colon, and the pairs of the option model.
PairInputs ==
    {LongName(n) : n \in 0..MaxPairLen}
        \cup {LongName(n) \o <<":", "x">> : n \in 0..MaxPairLen}
        \cup OutputArgs

\* Entry of rm_cmd_parse_output_pair, behind memset(format_name, 0, ..).
PairInit ==
    /\ opc = "copy"
    /\ pair_given \in PairInputs
    /\ format_name_buf = [k \in 1..FormatNameSize |-> NUL]
    /\ written = 0
    /\ name_read = <<>>
    /\ pair_ret = "none"

\* The third argument of strncpy: strlen(pair) without a separator, else
\* MIN((long)sizeof(format_name), separator - pair).
CopyLength(pair) ==
    IF strchr(pair, ":") = 0 THEN Len(pair)
    ELSE Min(FormatNameSize, strchr(pair, ":") - 1)

\* strncpy(dest, src, n), the part of it that lands in dest: the first n
\* characters of src, NUL from the end of src up to n.
strncpy(dest, src, n) ==
    [k \in 1..Len(dest) |->
        IF k > n THEN dest[k] ELSE IF k <= Len(src) THEN src[k] ELSE NUL]

\* Lines 290-297.  Bytes written behind the end of format_name are undefined
\* behaviour: the process may end there, or go on with its stack overwritten.
PairCopy ==
    /\ opc = "copy"
    /\ written' = CopyLength(pair_given)
    /\ format_name_buf' = strncpy(format_name_buf, pair_given, CopyLength(pair_given))
    /\ opc' \in IF CopyLength(pair_given) > FormatNameSize
                THEN {"add", "crashed"} ELSE {"add"}
    /\ UNCHANGED <<pair_given, name_read, pair_ret>>
    /\ UNCHANGED nonPairVars

\* full_path: "stdout" without a separator, else what follows it.
FullPath(pair) ==
    IF strchr(pair, ":") = 0 THEN Stdout ELSE Drop(pair, strchr(pair, ":"))

\* The C string that begins at format_name, when the buffer holds a NUL.
Terminated(buffer) == \E k \in 1..Len(buffer) : buffer[k] = NUL

CString(buffer) ==
    SubSeq(buffer, 1, (CHOOSE k \in 1..Len(buffer) :
                          buffer[k] = NUL /\ \A j \in 1..(k - 1) : buffer[j] # NUL) - 1)

\* Lines 299-304: rm_fmt_add reads the name up to the first NUL.  Without a
\* NUL in the buffer it reads on behind it, which is undefined behaviour: it
\* finds some longer name, of a formatter or not, or the process ends.
PairAdd ==
    /\ opc = "add"
    /\ IF Terminated(format_name_buf)
          THEN /\ name_read' = CString(format_name_buf)
               /\ pair_ret' = IF rm_fmt_add({}, CString(format_name_buf),
                                            FullPath(pair_given)).ok
                              THEN "true" ELSE "false"
               /\ opc' = "returned"
          ELSE \/ /\ name_read' = format_name_buf \o <<"?">>
                  /\ pair_ret' \in {"true", "false"}
                  /\ opc' = "returned"
               \/ /\ opc' = "crashed"
                  /\ UNCHANGED <<name_read, pair_ret>>
    /\ UNCHANGED <<pair_given, format_name_buf, written>>
    /\ UNCHANGED nonPairVars

PairNext ==
    \/ PairCopy
    \/ PairAdd

(***************************************************************************)
(* rm_cmd_main                                                             *)
(***************************************************************************)
\* An event is a set_state notification or a call made by rm_cmd_main.
SetState(s) == [kind |-> "set_state", name |-> s]
Call(f)     == [kind |-> "call", name |-> f]

\* The session as rm_cmd_main receives it: the settings are any outcome of
\* option parsing, nothing has been traversed yet.
MainInit ==
    /\ mpc = "set_state_init"
    /\ events = <<>>
    /\ total_files = 0
    /\ searchdup \in BOOLEAN
    /\ merge_directories \in BOOLEAN
    /\ mounts = "unset"
    /\ dir_merger = "unset"
    /\ exit_state = EXIT_SUCCESS

\* Where rm_cmd_main continues once traversal (and rm_tm_new) is behind it.
AfterTraverse ==
    IF total_files >= 1 THEN "set_state_preprocess"
    ELSE IF merge_directories THEN "set_state_merge"
    ELSE "set_state_pre_shutdown"

\* Where rm_cmd_main continues once rm_preprocess has returned.
AfterPreprocess ==
    IF searchdup \/ merge_directories THEN "shred_run"
    ELSE IF merge_directories THEN "set_state_merge"
    ELSE "set_state_pre_shutdown"

\* Where rm_cmd_main continues once rm_shred_run has returned.
AfterShred ==
    IF merge_directories THEN "set_state_merge" ELSE "set_state_pre_shutdown"

\* exit_state when rm_mounts_table_new returned NULL.
MutMountsFailedExit == EXIT_SUCCESS
MountsFailedExit == EXIT_FAILURE

\* The state rm_cmd_main notifies just before rm_preprocess.
MutPreprocessState == "TRAVERSE"
PreprocessState == "PREPROCESS"

\* The state rm_cmd_main notifies just before rm_tm_finish.
MutMergeState == "PREPROCESS"
MergeState == "MERGE"

MainSetStateInit ==
    /\ mpc = "set_state_init"
    /\ events' = Append(events, SetState("INIT"))
    /\ mpc' = "set_state_traverse"
    /\ UNCHANGED <<total_files, searchdup, merge_directories, mounts,
                   dir_merger, exit_state>>
    /\ UNCHANGED nonMainVars

MainSetStateTraverse ==
    /\ mpc = "set_state_traverse"
    /\ events' = Append(events, SetState("TRAVERSE"))
    /\ mpc' = "mounts_table_new"
    /\ UNCHANGED <<total_files, searchdup, merge_directories, mounts,
                   dir_merger, exit_state>>
    /\ UNCHANGED nonMainVars

\* session->mounts = rm_mounts_table_new(); NULL goes to the failure label.
MainMountsTableNew ==
    /\ mpc = "mounts_table_new"
    /\ \E m \in {"ok", "NULL"} :
          /\ mounts' = m
          /\ IF m = "NULL"
                THEN /\ exit_state' = MountsFailedExit
                     /\ mpc' = "session_clear"
                ELSE /\ exit_state' = exit_state
                     /\ mpc' = "traverse_tree"
    /\ UNCHANGED <<events, total_files, searchdup, merge_directories, dir_merger>>
    /\ UNCHANGED nonMainVars

\* rm_traverse_tree(session): returns with total_files counted.
MainTraverseTree ==
    /\ mpc = "traverse_tree"
    /\ \E n \in 0..MaxFiles : total_files' = n
    /\ events' = Append(events, Call("rm_traverse_tree"))
    /\ mpc' = "tm_new"
    /\ UNCHANGED <<searchdup, merge_directories, mounts, dir_merger, exit_state>>
    /\ UNCHANGED nonMainVars

\* if(session->settings->merge_directories), line 1143
MutMergerWanted == TRUE
MergerWanted == merge_directories

\* if(merge_directories) session->dir_merger = rm_tm_new(session);
MainTmNew ==
    /\ mpc = "tm_new"
    /\ IF MergerWanted
          THEN /\ dir_merger' = "created"
               /\ events' = Append(events, Call("rm_tm_new"))
          ELSE UNCHANGED <<dir_merger, events>>
    /\ mpc' = AfterTraverse
    /\ UNCHANGED <<total_files, searchdup, merge_directories, mounts, exit_state>>
    /\ UNCHANGED nonMainVars

MainSetStatePreprocess ==
    /\ mpc = "set_state_preprocess"
    /\ events' = Append(events, SetState(PreprocessState))
    /\ mpc' = "preprocess"
    /\ UNCHANGED <<total_files, searchdup, merge_directories, mounts,
                   dir_merger, exit_state>>
    /\ UNCHANGED nonMainVars

MainPreprocess ==
    /\ mpc = "preprocess"
    /\ events' = Append(events, Call("rm_preprocess"))
    /\ mpc' = AfterPreprocess
    /\ UNCHANGED <<total_files, searchdup, merge_directories, mounts,
                   dir_merger, exit_state>>
    /\ UNCHANGED nonMainVars

MainShredRun ==
    /\ mpc = "shred_run"
    /\ events' = Append(events, Call("rm_shred_run"))
    /\ mpc' = AfterShred
    /\ UNCHANGED <<total_files, searchdup, merge_directories, mounts,
                   dir_merger, exit_state>>
    /\ UNCHANGED nonMainVars

MainSetStateMerge ==
    /\ mpc = "set_state_merge"
    /\ events' = Append(events, SetState(MergeState))
    /\ mpc' = "tm_finish"
    /\ UNCHANGED <<total_files, searchdup, merge_directories, mounts,
                   dir_merger, exit_state>>
    /\ UNCHANGED nonMainVars

MainTmFinish ==
    /\ mpc = "tm_finish"
    /\ events' = Append(events, Call("rm_tm_finish"))
    /\ mpc' = "set_state_pre_shutdown"
    /\ UNCHANGED <<total_files, searchdup, merge_directories, mounts,
                   dir_merger, exit_state>>
    /\ UNCHANGED nonMainVars

MainSetStatePreShutdown ==
    /\ mpc = "set_state_pre_shutdown"
    /\ events' = Append(events, SetState("PRE_SHUTDOWN"))
    /\ mpc' = "set_state_summary"
    /\ UNCHANGED <<total_files, searchdup, merge_directories, mounts,
                   dir_merger, exit_state>>
    /\ UNCHANGED nonMainVars

MainSetStateSummary ==
    /\ mpc = "set_state_summary"
    /\ events' = Append(events, SetState("SUMMARY"))
    /\ mpc' = "session_clear"
    /\ UNCHANGED <<total_files, searchdup, merge_directories, mounts,
                   dir_merger, exit_state>>
    /\ UNCHANGED nonMainVars

\* failure: rm_session_clear(session); return exit_state;
MainSessionClear ==
    /\ mpc = "session_clear"
    /\ events' = Append(events, Call("rm_session_clear"))
    /\ mpc' = "returned"
    /\ UNCHANGED <<total_files, searchdup, merge_directories, mounts,
                   dir_merger, exit_state>>
    /\ UNCHANGED nonMainVars

MainNext ==
    \/ MainSetStateInit
    \/ MainSetStateTraverse
    \/ MainMountsTableNew
    \/ MainTraverseTree
    \/ MainTmNew
    \/ MainSetStatePreprocess
    \/ MainPreprocess
    \/ MainShredRun
    \/ MainSetStateMerge
    \/ MainTmFinish
    \/ MainSetStatePreShutdown
    \/ MainSetStateSummary
    \/ MainSessionClear


(***************************************************************************)
(* Specifications                                                          *)
(***************************************************************************)
InitMain == MainInit /\ PathsIdle /\ SizeIdle /\ ArgsIdle /\ LintIdle /\ PairIdle

SpecMain == InitMain /\ [][MainNext]_vars

InitPaths == PathsInit /\ MainIdle /\ SizeIdle /\ ArgsIdle /\ LintIdle /\ PairIdle

SpecPaths == InitPaths /\ [][PathsNext]_vars

InitSize == SizeInit /\ MainIdle /\ PathsIdle /\ ArgsIdle /\ LintIdle /\ PairIdle

SpecSize == InitSize /\ [][SizeNext]_vars

InitArgs == ArgsInit /\ MainIdle /\ PathsIdle /\ SizeIdle /\ LintIdle /\ PairIdle

SpecArgs == InitArgs /\ [][ArgsNext]_vars

InitFlags == FlagsInit /\ MainIdle /\ PathsIdle /\ SizeIdle /\ LintIdle /\ PairIdle

SpecFlags == InitFlags /\ [][FlagsNext]_vars

InitDigest == FlagsInit /\ MainIdle /\ PathsIdle /\ SizeIdle /\ LintIdle /\ PairIdle

SpecDigest == InitDigest /\ [][DigestNext]_vars

InitLint == LintInit /\ MainIdle /\ PathsIdle /\ SizeIdle /\ ArgsIdle /\ PairIdle

SpecLint == InitLint /\ [][LintNext]_vars

InitPair == PairInit /\ MainIdle /\ PathsIdle /\ SizeIdle /\ ArgsIdle /\ LintIdle

SpecPair == InitPair /\ [][PairNext]_vars

(***************************************************************************)
(* Properties of rm_cmd_main                                               *)
(***************************************************************************)
\* The fixed order of the phases: each state notification directly before
\* the work of its phase.
Rank(e) ==
    IF e.kind = "set_state"
    THEN CASE e.name = "INIT"         -> 1
           [] e.name = "TRAVERSE"     -> 2
           [] e.name = "PREPROCESS"   -> 4
           [] e.name = "SHRED"        -> 6
           [] e.name = "MERGE"        -> 8
           [] e.name = "PRE_SHUTDOWN" -> 10
           [] e.name = "SUMMARY"      -> 11
           [] OTHER                   -> 0
    ELSE CASE e.name = "rm_traverse_tree" -> 3
           [] e.name = "rm_preprocess"    -> 5
           [] e.name = "rm_shred_run"     -> 7
           [] e.name = "rm_tm_finish"     -> 9
           [] OTHER                       -> 0

Ranked(e) == Rank(e) > 0

\* The name of the last state notified before position i of events.
RECURSIVE LastStateBefore(_)
LastStateBefore(i) ==
    IF i <= 1 THEN "none"
    ELSE IF events[i - 1].kind = "set_state" THEN events[i - 1].name
    ELSE LastStateBefore(i - 1)

HasEvent(e) == \E i \in 1..Len(events) : events[i] = e

\* C1: the phase calls and the state notifications of rm_cmd_main occur in
\* the fixed order INIT, TRAVERSE, rm_traverse_tree, PREPROCESS,
\* rm_preprocess, SHRED, rm_shred_run, MERGE, rm_tm_finish, PRE_SHUTDOWN,
\* SUMMARY: no call or notification follows a later one, none occurs twice.
C1_PhaseSequential ==
    \A i, j \in 1..Len(events) :
        (i < j /\ Ranked(events[i]) /\ Ranked(events[j]))
            => Rank(events[i]) < Rank(events[j])

\* A complete run with files, duplicate search and directory merging.
C1_Witness ==
    /\ mpc = "returned"
    /\ total_files >= 1
    /\ HasEvent(Call("rm_preprocess"))
    /\ HasEvent(Call("rm_shred_run"))
    /\ HasEvent(Call("rm_tm_finish"))
    /\ HasEvent(SetState("SUMMARY"))

WorkCalls == {"rm_traverse_tree", "rm_preprocess", "rm_shred_run", "rm_tm_finish"}

OwnState(f) ==
    CASE f = "rm_traverse_tree" -> "TRAVERSE"
      [] f = "rm_preprocess"    -> "PREPROCESS"
      [] f = "rm_shred_run"     -> "SHRED"
      [] f = "rm_tm_finish"     -> "MERGE"

\* C2 as stated: whenever rm_cmd_main starts the work of a phase, the last
\* state it has notified is that phase's own state.
C2_OwnStateNotified ==
    \A i \in 1..Len(events) :
        (events[i].kind = "call" /\ events[i].name \in WorkCalls)
            => LastStateBefore(i) = OwnState(events[i].name)

\* C2 amended: rm_traverse_tree, rm_preprocess and rm_tm_finish start right
\* after their own state was notified; rm_shred_run starts while the last
\* state notified by rm_cmd_main is still PREPROCESS (rm_cmd_main itself
\* never notifies SHRED).
C2_NotifiedBeforeWork ==
    /\ \A i \in 1..Len(events) :
          (events[i].kind = "call" /\ events[i].name \in WorkCalls)
              => LastStateBefore(i) =
                   (IF events[i].name = "rm_shred_run" THEN "PREPROCESS"
                    ELSE OwnState(events[i].name))
    /\ ~HasEvent(SetState("SHRED"))

\* rm_shred_run and rm_tm_finish have both been started.
C2_Witness ==
    /\ HasEvent(Call("rm_shred_run"))
    /\ HasEvent(Call("rm_tm_finish"))

\* C3: a run that returns EXIT_SUCCESS has notified SUMMARY, as its last
\* notification and before rm_session_clear; a run returns another status
\* only when rm_mounts_table_new returned NULL.
C3_SummaryOnSuccess ==
    mpc = "returned" =>
        /\ exit_state = EXIT_SUCCESS =>
              \E i \in 1..Len(events) :
                  /\ events[i] = SetState("SUMMARY")
                  /\ \A j \in (i + 1)..Len(events) : events[j].kind # "set_state"
                  /\ \E k \in (i + 1)..Len(events) : events[k] = Call("rm_session_clear")
        /\ exit_state # EXIT_SUCCESS => mounts = "NULL"

\* A successful run in which traversal found nothing and neither duplicate
\* search nor directory merging is enabled.
C3_Witness ==
    /\ mpc = "returned"
    /\ exit_state = EXIT_SUCCESS
    /\ total_files = 0
    /\ ~searchdup
    /\ ~merge_directories

\* The tree merger has been created, MERGE notified and rm_tm_finish called.
MergerCreated == HasEvent(Call("rm_tm_new"))
MergeNotified == HasEvent(SetState("MERGE"))
MergerFinished == HasEvent(Call("rm_tm_finish"))

\* rm_tm_finish is only ever called on a merger that rm_tm_new has created.
FinishedOnlyIfCreated ==
    \A i \in 1..Len(events) :
        events[i] = Call("rm_tm_finish") =>
            /\ dir_merger = "created"
            /\ \E j \in 1..(i - 1) : events[j] = Call("rm_tm_new")

\* C13 as stated: in every run of rm_cmd_main the merger is created, MERGE
\* is notified and rm_tm_finish is called if and only if
\* settings->merge_directories is set, and rm_tm_finish is never called on
\* a merger that was not created.
C13_MergerIffEnabled ==
    /\ FinishedOnlyIfCreated
    /\ mpc = "returned" =>
          /\ MergerCreated = merge_directories
          /\ MergeNotified = merge_directories
          /\ MergerFinished = merge_directories

\* C13, amended: the tree merger is activated only when directory-merge mode
\* is enabled; in every run of rm_cmd_main in which rm_mounts_table_new
\* succeeds the merger is created, MERGE is notified and rm_tm_finish is
\* called if and only if settings->merge_directories is set; in a run in
\* which rm_mounts_table_new fails none of the three happens; rm_tm_finish is
\* never called on a merger that was not created.
C13_MergerIffEnabledAndMounted ==
    /\ FinishedOnlyIfCreated
    /\ (MergerCreated \/ MergeNotified \/ MergerFinished) => merge_directories
    /\ mpc = "returned" =>
          /\ MergerCreated = (merge_directories /\ mounts = "ok")
          /\ MergeNotified = (merge_directories /\ mounts = "ok")
          /\ MergerFinished = (merge_directories /\ mounts = "ok")

\* A run with directory merging and no file at all: the merger is created
\* and finished all the same.
C13_Witness ==
    /\ mpc = "returned"
    /\ merge_directories
    /\ total_files = 0
    /\ MergerCreated /\ MergeNotified /\ MergerFinished

(***************************************************************************)
(* Properties of rm_cmd_set_paths                                          *)
(***************************************************************************)
\* The roots a command line names: an argument that is exactly // toggles
\* the preferred flag, an argument that is exactly - stands for the lines
\* of standard input (which is read once), any other argument is a root.
LineRoots(lines, flag) == [k \in 1..Len(lines) |-> [path |-> lines[k], prefd |-> flag]]

RECURSIVE NamedRoots(_, _, _)
NamedRoots(args, lines, flag) ==
    IF args = <<>> THEN <<>>
    ELSE IF Head(args) = <<"/", "/">> THEN NamedRoots(Tail(args), lines, ~flag)
    ELSE IF Head(args) = <<"-">>
         THEN LineRoots(lines, flag) \o NamedRoots(Tail(args), <<>>, flag)
    ELSE <<[path |-> Head(args), prefd |-> flag]>> \o NamedRoots(Tail(args), lines, flag)

IsReadableRoot(r) == r.path \in ReadableFiles

AllRoots == NamedRoots(argv_paths, stdin_given, FALSE)
AcceptedRoots == SelectSeq(AllRoots, IsReadableRoot)

StoredPaths ==
    IF settings_paths = <<>> THEN <<>>
    ELSE SubSeq(settings_paths, 1, Len(settings_paths) - 1)

\* C5: the accepted roots are stored in command-line order at consecutive
\* indices followed by NULL, each with the preferred flag given by the
\* number of // arguments before it (only an argument that is exactly //
\* toggles, only an argument that is exactly - reads standard input).
C5_RootsInOrder ==
    (ppc = "returned" /\ AcceptedRoots # <<>>) =>
        /\ settings_paths =
             [k \in 1..Len(AcceptedRoots) |-> realpath(AcceptedRoots[k].path)]
                \o <<"NULL">>
        /\ settings_is_prefd =
             [k \in 1..Len(AcceptedRoots) |-> AcceptedRoots[k].prefd]

\* C6: when at least one named root is readable, rm_cmd_set_paths returns
\* true, every readable root is stored, none displaced, and no unreadable
\* root is stored.
C6_UnreadableSkipped ==
    (ppc = "returned" /\ AcceptedRoots # <<>>) =>
        /\ paths_ret = TRUE
        /\ \A k \in 1..Len(AcceptedRoots) :
              /\ k <= Len(StoredPaths)
              /\ StoredPaths[k] = realpath(AcceptedRoots[k].path)
        /\ \A k \in 1..Len(StoredPaths) :
              \A u \in UnreadableFiles : StoredPaths[k] # realpath(u)

\* What the code does for C5 and C6: the same, when no argument other than
\* - and // begins with - or //.
NoPrefixedRoot ==
    \A k \in 1..Len(argv_paths) :
        \/ argv_paths[k] \in {<<"-">>, <<"/", "/">>}
        \/ (~StrNEq(argv_paths[k], <<"-">>, 1) /\ ~StrNEq(argv_paths[k], <<"/", "/">>, 2))

RootsInOrderUnlessPrefixed == NoPrefixedRoot => (C5_RootsInOrder /\ C6_UnreadableSkipped)

\* The working directory is stored as the single root, with the flag the //
\* arguments have left.
CwdIsSingleRoot ==
    /\ settings_paths = <<realpath(IWD), "NULL">>
    /\ settings_is_prefd = <<is_prefd>>

\* C18: if no root has been set after all positional arguments were
\* processed, the working directory is used as the single root (not
\* preferred unless toggled) and rm_cmd_set_paths succeeds; it fails only
\* when at least one root was named, on the command line or on standard
\* input, and none of the named roots could be added.  Command lines with a
\* root that merely begins with - or // are left to C5.
C18_CwdWhenNoRoot ==
    (ppc = "returned" /\ NoPrefixedRoot) =>
        /\ AllRoots = <<>> => paths_ret = TRUE
        /\ (AllRoots = <<>> /\ cwd_readable) => CwdIsSingleRoot
        /\ paths_ret = FALSE => (AllRoots # <<>> /\ AcceptedRoots = <<>>)

\* rmlint //   names no root and fails all the same.
C18_Witness ==
    /\ ppc = "returned"
    /\ argv_paths = <<<<"/", "/">>>>
    /\ paths_ret = FALSE
    /\ settings_paths = <<>>

\* The part of C18 that holds: without any positional argument the working
\* directory is the single root, and a failure means that no named root was
\* added.
CwdWhenNoArgument ==
    ppc = "returned" =>
        /\ argv_paths = <<>> => (paths_ret = TRUE /\ (cwd_readable => CwdIsSingleRoot))
        /\ (paths_ret = FALSE /\ NoPrefixedRoot) =>
                (argv_paths # <<>> /\ AcceptedRoots = <<>>)

(***************************************************************************)
(* Properties of rm_cmd_size_string_to_bytes                               *)
(***************************************************************************)
\* The suffixes and what each multiplies by, as the documentation has them.
RECURSIVE Times(_, _)
Times(factor, n) == IF n = 0 THEN Big(1) ELSE BigMul(Times(factor, n - 1), factor)

DecimalSuffixes == <<"k", "m", "g", "t", "p", "e">>

SuffixFactor ==
    [w \in {<<"b">>, <<"c">>, <<"w">>} |->
        IF w = <<"b">> THEN Big(512) ELSE IF w = <<"c">> THEN Big(1) ELSE Big(2)]
    @@ [w \in {<<DecimalSuffixes[n]>> : n \in 1..6} |->
        Times(1000, CHOOSE n \in 1..6 : DecimalSuffixes[n] = w[1])]
    @@ [w \in {<<DecimalSuffixes[n], "b">> : n \in 1..6} |->
        Times(1024, CHOOSE n \in 1..6 : DecimalSuffixes[n] = w[1])]

KnownSuffixes == DOMAIN SuffixFactor

IsNumber(q) == q.digits # <<>>
IsNegative(q) == IsNumber(q) /\ q.sign = <<"-">> /\ DigitsValue(q.digits) > 0
SuffixedValue(q) == BigMul(SuffixFactor[q.letters], DigitsValue(q.digits))
Converted == spc = "done" /\ size_value # NoValue /\ spec_parts.kind = "size"

\* A negative number, a string that does not start with a number and an
\* unknown suffix each yield an error message and the value 0.
SizeErrors(q) ==
    /\ (IsNegative(q) \/ ~IsNumber(q) \/ (q.letters # <<>> /\ q.letters \notin KnownSuffixes))
          => (size_error # "NULL" /\ size_value = Big(0))

\* C8 (as stated): a non-negative number followed by a suffix of the table
\* is mapped to number x base^exponent (b=512, c=1, w=2, k..e = 1000^1..6,
\* kb..eb = 1024^1..6), whatever the case of the suffix and the blanks around
\* it, each of the 15 suffixes being found; a negative number, no number and
\* an unknown suffix yield an error message and 0.
C8_SizeStringToBytes ==
    Converted =>
        LET q == spec_parts
        IN  /\ (IsNumber(q) /\ q.sign = <<>> /\ q.letters \in KnownSuffixes)
                  => (size_error = "NULL" /\ size_value = SuffixedValue(q))
            /\ SizeErrors(q)

\* C8 (amended): the same, for the products that are below 2^64, the only
\* ones an RmOff can hold.
C8_SizeStringToBytesBelow2p64 ==
    Converted =>
        LET q == spec_parts
        IN  /\ (IsNumber(q) /\ q.sign = <<>> /\ q.letters \in KnownSuffixes)
                  => /\ size_error = "NULL"
                     /\ FitsRmOff(SuffixedValue(q)) => size_value = SuffixedValue(q)
            /\ SizeErrors(q)

\* C8: " 1Eb " has been converted to 2^60.
C8_Witness ==
    /\ Converted
    /\ size_spec = <<" ", "1", "E", "b", " ">>
    /\ size_error = "NULL"
    /\ size_value = <<0, 0, 0, 4096, 0>>

(***************************************************************************)
(* Properties of rm_cmd_size_range_string_to_bytes                         *)
(***************************************************************************)
Limited == spc = "done" /\ minsize # NoValue

\* A single value: a number, with a known suffix or with nothing behind it.
IsSingleValue(q) ==
    /\ q.kind = "size"
    /\ IsNumber(q)
    /\ q.sign = <<>>
    /\ \/ q.letters \in KnownSuffixes
       \/ q.letters = <<>> /\ q.mid = <<>> /\ q.trail = <<>>

SingleValue(q) ==
    IF q.letters = <<>> THEN Big(DigitsValue(q.digits)) ELSE SuffixedValue(q)

\* In every successful result min <= max, and a range whose max is smaller
\* than its min is rejected with 'Max is smaller than min'.
RangeOrdered ==
    /\ limits_specified => ~BigLess(maxsize, minsize)
    /\ (/\ spec_parts.kind = "range"
        /\ spec_parts.lo.val # NoValue
        /\ spec_parts.hi.val # NoValue
        /\ BigLess(spec_parts.hi.val, spec_parts.lo.val))
          => /\ ~limits_specified
             /\ limit_error = <<"cannot parse --limit: ", "Max is smaller than min">>

\* C9 (as stated): an argument without a dash succeeds with min = max = the
\* single value given; every successful result has min <= max, and a range
\* whose max is smaller than its min is rejected with 'Max is smaller than
\* min'.
C9_SingleValueIsMinAndMax ==
    Limited =>
        /\ (IsSingleValue(spec_parts) /\ FitsRmOff(SingleValue(spec_parts)))
              => /\ limits_specified
                 /\ minsize = SingleValue(spec_parts)
                 /\ maxsize = SingleValue(spec_parts)
        /\ RangeOrdered

\* C9 (amended): an argument without a dash succeeds with min = the single
\* value given (below 2^64) and max = G_MAXULONG; every successful result
\* has min <= max, and a range whose max is smaller than its min is rejected
\* with 'Max is smaller than min'.
C9_SingleValueIsMin ==
    Limited =>
        /\ IsSingleValue(spec_parts) => limits_specified
        /\ (IsSingleValue(spec_parts) /\ FitsRmOff(SingleValue(spec_parts)))
              => /\ minsize = SingleValue(spec_parts)
                 /\ maxsize = <<65535, 65535, 65535, 65535, 0>>
        /\ RangeOrdered

\* C9: "9k" has been accepted as the limits 9000 .. 2^64 - 1.
C9_Witness ==
    /\ Limited
    /\ size_spec = <<"9", "k">>
    /\ limits_specified
    /\ minsize = Big(9000)
    /\ maxsize = <<65535, 65535, 65535, 65535, 0>>

\* A range in the wrong order has been rejected.
RangeRejected ==
    /\ Limited
    /\ size_spec = <<"1", "K", "B", "-", "1", "k">>
    /\ ~limits_specified

(***************************************************************************)
(* Properties of rm_cmd_parse_args                                         *)
(***************************************************************************)
OptionIndexes(opts) == {i \in 1..Len(argv_opts) : argv_opts[i].opt \in opts}
Given(opt) == {argv_opts[i].arg : i \in OptionIndexes({opt})}
Finished == apc \in {"returned", "exited"}
Succeeded == apc = "returned" /\ parse_result = "true"

\* The option arguments of the model that are configuration errors.
IsOffending(o) ==
    \/ o.opt = "-s" /\ o.arg = <<"9", "-", "1">>
    \/ o.opt = "-u" /\ o.arg = <<"x">>
    \/ o.opt \in {"-q", "-Q"} /\ o.arg \in {<<"1", "5", "0", "%">>, <<".", "x">>, <<"x">>}
    \/ o.opt = "-N" /\ o.arg = <<"0">>
    \/ o.opt = "-n" /\ o.arg \in {<<"e">>, <<"x">>}
    \/ o.opt = "-a" /\ o.arg = <<"z", "z">>
    \/ o.opt \in {"-o", "-O"} /\ o.arg = <<"z", "z">>
    \/ o.opt = "-C" /\ o.arg = <<"x">>

\* -p minus -P among the first n options.
ParanoiaAfter(n) ==
    Cardinality({i \in OptionIndexes({"-p"}) : i <= n})
        - Cardinality({i \in OptionIndexes({"-P"}) : i <= n})

\* An option with a bad argument, or a -p/-P count out of range, has been met.
ErrorMet ==
    \/ \E i \in 1..Len(argv_opts) : IsOffending(argv_opts[i])
    \/ \E n \in 1..Len(argv_opts) : ParanoiaAfter(n) > 3 \/ ParanoiaAfter(n) < 0 - 2

\* The errors that only the end of the parse can see.
ContradictionGiven ==
    \/ Given("-k") # {} /\ Given("-K") # {}
    \/ Given("-o") # {} /\ Given("-O") # {}
    \/ ppc = "returned" /\ ~paths_ret

\* The process has ended as a fatal error does: one ERROR line, the session
\* cleared, a non-zero status.
EndedFatally ==
    /\ apc = "exited"
    /\ exit_status # EXIT_SUCCESS
    /\ session.cleared
    /\ Len(error_lines) = 1

FatalOnceOver ==
    /\ parse_result # "true"
    /\ Finished => EndedFatally

\* C4 (as stated): once a configuration error has been met, whatever
\* options follow, rm_cmd_parse_args never returns true and the process ends
\* with exactly one ERROR line, the session cleared and a non-zero status.
C4_ConfigErrorFatal ==
    /\ ErrorMet => FatalOnceOver
    /\ (Finished /\ ContradictionGiven) => EndedFatally

\* The errors are fatal on the command lines without --version and -H.
FatalUnlessVersionOrHelp ==
    OptionIndexes({"--version", "-H"}) = {} => C4_ConfigErrorFatal

\* C4: -a zz --version has ended the process with status 0 and without an
\* ERROR line.
C4_Witness ==
    /\ apc = "exited"
    /\ argv_opts = <<[opt |-> "-a", arg |-> <<"z", "z">>],
                     [opt |-> "--version", arg |-> <<>>]>>
    /\ exit_status = EXIT_SUCCESS
    /\ error_lines = <<>>

\* What an output argument FMT[:PATH] stands for.
OutputMeaning(a) ==
    IF a = <<"p", "y", ":", "x">>
    THEN [name |-> <<"p", "y">>, path |-> <<"x">>]
    ELSE [name |-> a, path |-> Stdout]

\* pretty:stdout, summary:stdout, sh:rmlint.sh
DocumentedDefaults == {Pretty, Summary, ShScript}

OnlyOption(opt) == argv_opts # <<>> /\ OptionIndexes({opt}) = 1..Len(argv_opts)

SmallOutputsReplace ==
    (Succeeded /\ OnlyOption("-o"))
        => session.formats = {OutputMeaning(a) : a \in Given("-o")}

DefaultsWithoutOutputOption ==
    (Succeeded /\ OptionIndexes({"-o", "-O", "-g", "-G", "-n"}) = {})
        => session.formats = DocumentedDefaults

\* C7 (as stated): after a successful parse with only -o options the
\* formatters are exactly the outputs given with -o; with only -O options
\* they are the defaults (pretty:stdout, summary:stdout, sh:rmlint.sh) plus
\* every output given with -O; with none of -o, -O, -g, -G they are exactly
\* the defaults.
C7_OutputsReplaceOrAdd ==
    /\ SmallOutputsReplace
    /\ (Succeeded /\ OnlyOption("-O"))
          => session.formats = DocumentedDefaults \cup {OutputMeaning(a) : a \in Given("-O")}
    /\ (Succeeded /\ OptionIndexes({"-o", "-O", "-g", "-G"}) = {})
          => session.formats = DocumentedDefaults

\* C7: -O py:x alone has been parsed successfully, and py:x is the only
\* formatter.
C7_Witness ==
    /\ Succeeded
    /\ argv_opts = <<[opt |-> "-O", arg |-> <<"p", "y", ":", "x">>]>>
    /\ session.formats = {[name |-> <<"p", "y">>, path |-> <<"x">>]}

\* What a clamp argument stands for: a fraction in hundredths or an
\* absolute offset in bytes.
ClampMeaning(a) ==
    IF a = <<"5", "0", "%">> THEN [kind |-> "factor", val |-> 50]
    ELSE IF a = <<"4", "0", "%">> THEN [kind |-> "factor", val |-> 40]
    ELSE IF a = <<"1", "0", "0">> THEN [kind |-> "offset", val |-> 100]
    ELSE IF a = <<"5", "0">> THEN [kind |-> "offset", val |-> 50]
    ELSE [kind |-> "invalid", val |-> 0]

\* The bound that is finally in effect: that of the last -q (-Q) given.
ClampInEffect(opt) ==
    LET I == OptionIndexes({opt})
    IN  IF I = {} THEN [kind |-> "default", val |-> 0]
        ELSE ClampMeaning(argv_opts[CHOOSE i \in I : \A j \in I : j <= i].arg)

ClampErrorLine == <<"-q (--clamp-low) should be lower than -Q (--clamp-top)!", ".">>

\* Both bounds are given, in the same unit, and nothing else is wrong.
ClampsComparable(kinds) ==
    /\ Finished
    /\ ClampInEffect("-q").kind = ClampInEffect("-Q").kind
    /\ ClampInEffect("-q").kind \in kinds
    /\ ~ErrorMet
    /\ OptionIndexes({"--version", "-H"}) = {}
    /\ ~(Given("-k") # {} /\ Given("-K") # {})

ClampOrderChecked(kinds) ==
    ClampsComparable(kinds) =>
        IF ClampInEffect("-q").val >= ClampInEffect("-Q").val
        THEN apc = "exited" /\ error_lines = <<ClampErrorLine>>
        ELSE \A k \in 1..Len(error_lines) : error_lines[k] # ClampErrorLine

\* C10 (as stated): whenever the lower bound finally in effect is not below
\* the upper bound finally in effect, be they fractions or absolute
\* offsets, parsing ends with the error '-q (--clamp-low) should be lower
\* than -Q (--clamp-top)!', and no command line whose lower bound is below
\* its upper bound is rejected with that error.
C10_ClampOrderChecked == ClampOrderChecked({"factor", "offset"})

\* The order is checked for bounds that are both given as fractions.
FactorOrderChecked == ClampOrderChecked({"factor"})

\* C10: -q 100 -Q 50 has been parsed successfully.
C10_Witness ==
    /\ Succeeded
    /\ argv_opts = <<[opt |-> "-q", arg |-> <<"1", "0", "0">>],
                     [opt |-> "-Q", arg |-> <<"5", "0">>]>>

(***************************************************************************)
(* Properties of rm_cmd_parse_lint_types                                   *)
(***************************************************************************)
\* The first character that is not a letter, behind a sign at the very
\* start if there is one; a comma when every character is a letter.
SepInferred(str) ==
    LET body == IF str # <<>> /\ str[1] \in {"+", "-"} THEN Tail(str) ELSE str
        others == {i \in 1..Len(body) : body[i] \notin AlphaChars}
    IN  IF others = {} THEN ","
        ELSE body[CHOOSE i \in others : \A j \in others : i <= j]

RECURSIVE Joined(_, _)
Joined(types, c) ==
    IF types = <<>> THEN <<>>
    ELSE IF Len(types) = 1 THEN types[1]
    ELSE types[1] \o <<c>> \o Joined(Tail(types), c)

\* C11: the separator of the lint-type selector is the first non-alphabetic
\* character of the string (behind an optional leading + or -), a comma when
\* there is none, and the whole string is split at that one character only:
\* no item holds the separator, the items joined by it give the string back,
\* and the loop has seen every one of them when the function returns.
C11_SeparatorInferred ==
    lpc \in {"loop", "returned"} =>
        /\ lint_sep = SepInferred(lint_string)
        /\ \A k \in 1..Len(lint_types) : strchr(lint_types[k], lint_sep) = 0
        /\ Joined(lint_types, lint_sep) = lint_string
        /\ (lint_types = <<>>) = (lint_string = <<>>)
        /\ lpc = "returned" => lint_index = Len(lint_types)

\* "+dd:dd,zz" is split at the colon only.
C11_Witness ==
    /\ lpc = "returned"
    /\ lint_string = <<"+", "d", "d", ":", "d", "d", ",", "z", "z">>
    /\ lint_sep = ":"
    /\ lint_types = <<<<"+", "d", "d">>, <<"d", "d", ",", "z", "z">>>>

LintFlags == {"findbadids", "findbadlinks", "findemptydirs", "listemptyfiles",
              "nonstripped", "searchdup", "merge_directories"}

\* What the item at lint_index does to the lint flags, as documented.
ItemMeaning ==
    LET item   == lint_types[lint_index + 1]
        signed == item # <<>> /\ item[1] \in {"+", "-"}
        name   == IF signed THEN Tail(item) ELSE item
        k      == lfind(name)
        named  == IF k = 0 THEN {}
                  ELSE {option_table[k].enable[i] :
                            i \in 1..Len(option_table[k].enable)}
    IN  \A f \in LintFlags :
            lint_settings'[f] =
                IF k = 0 \/ (~signed /\ lint_index > 0) THEN lint_settings[f]
                ELSE IF ~signed THEN f \in named
                ELSE IF f \in named THEN item[1] = "+"
                ELSE lint_settings[f]

\* C15: rm_cmd_parse_lint_types applies the items from left to right.  An
\* item without sign in first position turns all seven lint flags off and
\* then on exactly the flags of the named set; +name turns on and -name turns
\* off the flags of the named set and leaves every other lint flag unchanged;
\* an item without sign behind the first position and an item whose name is
\* not recognised leave all lint flags unchanged; nothing else in the
\* function changes a lint flag, and it always returns success.
C15_ItemsLeftToRight ==
    /\ [](lpc = "returned" => lint_ret = "true")
    /\ [][/\ LintType => ItemMeaning
          /\ LintType => lint_index' = lint_index + 1
          /\ (LintSplit \/ LintReturn) =>
                \A f \in LintFlags : lint_settings'[f] = lint_settings[f]]_vars

\* "minimal,dd,+zz": the flags of minimal are left on and no other; dd
\* without sign and zz are passed over.
C15_Witness ==
    /\ lpc = "returned"
    /\ lint_string = <<"m", "i", "n", "i", "m", "a", "l", ",", "d", "d", ",", "+", "z", "z">>
    /\ lint_ret = "true"
    /\ \A f \in LintFlags :
          lint_settings[f] = (f \in {"findbadids", "findbadlinks", "searchdup"})

(***************************************************************************)
(* Properties of the hash type: -a, -p, -P                                 *)
(***************************************************************************)
Seeded(session1) ==
    session1.hash_seed1 = "seeded" /\ session1.hash_seed2 = "seeded"

\* C12: whenever option parsing leaves the checksum type set to bastard,
\* be it by -a bastard or by a paranoia count of 1 reached with -p, both
\* hash seeds of the session have been set.
C12_BastardIsSeeded ==
    (Succeeded /\ cfg.checksum_type = "RM_DIGEST_BASTARD") => Seeded(session)

\* rmlint -p: bastard, and the seeds are as rm_session_init left them.
C12_Witness ==
    /\ Succeeded
    /\ argv_opts = <<[opt |-> "-p", arg |-> <<>>]>>
    /\ cfg.checksum_type = "RM_DIGEST_BASTARD"
    /\ ~Seeded(session)

\* The part of C12 that holds: -a bastard draws both seeds.
BastardByAlgorithmSeeded ==
    <<"b", "a", "s", "t", "a", "r", "d">> \in Given("-a") => Seeded(session)

\* The type the last -a asked for, the default of the session without -a.
LastAlgorithmChoice ==
    LET given == OptionIndexes({"-a"})
    IN  IF given = {} THEN DefaultSettings.checksum_type
        ELSE rm_string_to_digest_type(
                 argv_opts[CHOOSE i \in given : \A j \in given : j <= i].arg)

\* C16: a paranoia count of 0 leaves the user's choice of -a: for every
\* sequence of -p, -P and -a after which as many -p as -P were given and the
\* count never went out of range, the final checksum type is the one named by
\* the last -a, or the default of the session when no -a was given.
C16_ZeroCountLeavesChoice ==
    (/\ Finished
     /\ ParanoiaAfter(Len(argv_opts)) = 0
     /\ \A n \in 1..Len(argv_opts) : ParanoiaAfter(n) \in (0 - 2)..3)
        => cfg.checksum_type = LastAlgorithmChoice

\* rmlint -p -P ends with the bastard hash, not with the default.
C16_Witness ==
    /\ Succeeded
    /\ argv_opts = <<[opt |-> "-p", arg |-> <<>>], [opt |-> "-P", arg |-> <<>>]>>
    /\ session.paranoia_count = 0
    /\ cfg.checksum_type = "RM_DIGEST_BASTARD"

\* The part of C16 that holds: without -p and -P the last -a decides.
AlgorithmChoiceKept ==
    OptionIndexes({"-p", "-P"}) = {} => cfg.checksum_type = LastAlgorithmChoice

EnablesDuplicateDirs(i) ==
    \/ argv_opts[i].opt = "-D"
    \/ argv_opts[i].opt = "-T" /\ argv_opts[i].arg = <<"+", "d", "d">>

\* The flag opt is given behind an option that enables duplicate
\* directories, and the opposite flag is not given behind it.
ExplicitAfterDirs(opt, opposite) ==
    \E i, j \in 1..Len(argv_opts) :
        /\ i < j
        /\ EnablesDuplicateDirs(i)
        /\ argv_opts[j].opt = opt
        /\ \A k \in (j + 1)..Len(argv_opts) : argv_opts[k].opt # opposite

\* C17: behind -D (or a -T that enables duplicatedirs) an explicit
\* --no-hardlinked or --no-hidden given later on the command line is still
\* in effect when option parsing finishes, whatever options follow it
\* (other than the opposite flag itself).
C17_ExplicitDisableKept ==
    Finished =>
        /\ ExplicitAfterDirs("-L", "-l") => ~cfg.find_hardlinked_dupes
        /\ ExplicitAfterDirs("-R", "-r") => cfg.ignore_hidden

\* rmlint -D -L -T +bi ends with hardlinks reported as duplicates.
C17_Witness ==
    /\ Succeeded
    /\ argv_opts = <<[opt |-> "-D", arg |-> <<>>], [opt |-> "-L", arg |-> <<>>],
                    [opt |-> "-T", arg |-> <<"+", "b", "i">>]>>
    /\ cfg.find_hardlinked_dupes

\* The part of C17 that holds: the flag is in effect when neither -D nor -T
\* follows it.
ExplicitDisableKeptUnlessDirsFollow ==
    Finished =>
        \A j \in 1..Len(argv_opts) :
            (\A k \in (j + 1)..Len(argv_opts) : argv_opts[k].opt \notin {"-D", "-T"}) =>
                /\ (argv_opts[j].opt = "-L" /\ ExplicitAfterDirs("-L", "-l"))
                       => ~cfg.find_hardlinked_dupes
                /\ (argv_opts[j].opt = "-R" /\ ExplicitAfterDirs("-R", "-r"))
                       => cfg.ignore_hidden

(***************************************************************************)
(* Properties of the option callbacks and rm_cmd_on_error                  *)
(***************************************************************************)
\* C19: whenever an option callback returns failure it has set the error
\* object first, so that rm_cmd_on_error never reads the message of an unset
\* error; this includes rm_cmd_parse_timestamp_file when the stamp file
\* cannot be opened or is empty.
C19_FailureSetsError ==
    /\ ~callback_ret.ok => callback_ret.error # NoError
    /\ \A k \in 1..Len(error_lines) : error_lines[k] # NoError \o <<".">>

\* rmlint -n x with x unreadable: the callback has returned false and left
\* the error unset; the message that is logged is the one GLib supplies.
C19_Witness ==
    /\ apc = "exited"
    /\ argv_opts = <<[opt |-> "-n", arg |-> <<"x">>]>>
    /\ ~callback_ret.ok
    /\ callback_ret.error = NoError
    /\ error_lines = <<<<"Error parsing option ", "-n", ".">>>>

\* The part of C19 that holds: rm_cmd_on_error always finds an error set,
\* and every callback other than rm_cmd_parse_timestamp_file sets the error
\* before it returns failure.
ErrorHookFindsError ==
    /\ \A k \in 1..Len(error_lines) : error_lines[k] # NoError \o <<".">>
    /\ (~callback_ret.ok /\ callback_ret.error = NoError) =>
           /\ argv_opts[Len(argv_opts)].opt = "-n"
           /\ argv_opts[Len(argv_opts)].arg \in {<<"e">>, <<"x">>}

(***************************************************************************)
(* Properties of rm_cmd_parse_output_pair                                  *)
(***************************************************************************)
\* C20: rm_cmd_parse_output_pair never writes outside its 100-byte buffer
\* format_name and always passes a NUL-terminated format name to rm_fmt_add,
\* whatever the length of the pair, with or without a ':' in it.
C20_FormatNameInBounds ==
    opc \in {"add", "returned", "crashed"} =>
        /\ written <= FormatNameSize
        /\ Terminated(format_name_buf)

\* A pair of 101 characters without ':': strncpy is told to write 101 bytes
\* into the 100 bytes of format_name.
C20_Witness ==
    /\ opc = "crashed"
    /\ strchr(pair_given, ":") = 0
    /\ Len(pair_given) = FormatNameSize + 1
    /\ written = FormatNameSize + 1
    /\ ~Terminated(format_name_buf)

\* The part of C20 that holds: a format name of fewer than 100 characters is
\* copied inside the buffer, is NUL-terminated and is the name rm_fmt_add
\* reads; with a ':' nothing is ever written behind the buffer.
ShortNameInBounds ==
    /\ (opc # "idle" /\ strchr(pair_given, ":") # 0) => written <= FormatNameSize
    /\ (opc = "returned" /\ Len(pair_given) < FormatNameSize) =>
          /\ written < FormatNameSize
          /\ name_read = IF strchr(pair_given, ":") = 0 THEN pair_given
                         ELSE SubSeq(pair_given, 1, strchr(pair_given, ":") - 1)

====
